---- MODULE Spec2Model ----
(***************************************************************************)
(* Model of the fetch pipeline of the FBI crime data explorer backend:     *)
(* the job ledger (PostgreSQL table job_ledger), the delivery queue (Redis *)
(* streams pending_jobs / failed_jobs with the consumer group "workers"),  *)
(* the producer create_jobs_for_agencies, the worker CrimeFetcher and the  *)
(* per-partition CircuitBreaker.                                           *)
(*                                                                         *)
(* Fault model.  A database statement or commit may raise (the session     *)
(* context manager then rolls the transaction back and re-raises), the     *)
(* upstream fetch may return no data, an unparsable payload, or raise, and *)
(* a worker process may crash at any await.  Redis commands themselves are *)
(* taken to succeed.  A critical section of the breaker (no await inside   *)
(* its lock) reads one clock value.                                        *)
(***************************************************************************)
EXTENDS Integers, Sequences, FiniteSets, TLC

\* ------------------------------------------------------------------ bounds
MaxRuns == 2        \* producer runs started in one behaviour
MaxCrashes == 1     \* worker processes that crash in one behaviour
MaxTime == 4        \* clock ticks in one behaviour
CooldownTicks == 2  \* cooldown_seconds, in clock ticks
MaxFailures == 4    \* cap on a circuit's failure counter
MaxKeys == 2        \* length of a configured credential list
MaxPoolCalls == 4   \* key pool calls in one behaviour
KeyCooldownTicks == 2   \* cooldown_seconds of mark_rate_limited, in clock ticks
MaxRetries == 3     \* largest max_retries given to get_with_retry
MaxGets == 5        \* get attempts granted in one behaviour
MaxConcurrent == 1  \* MAX_CONCURRENT of the environment
RequestsPerSecond == 1  \* REQUESTS_PER_SECOND of the environment
MaxWrites == 4      \* result writes in one behaviour
MaxOffenses == 6     \* length of the offenses list of one fetch_agency_crimes call
MaxActualsKeys == 2  \* keys of the 'actuals' object of one payload
MaxMonthValue == 1   \* largest monthly value of a payload

\* ------------------------------------------------------- program constants
FailureThreshold == 3
HalfOpenSuccesses == 2
NoTime == -1
HeavyRetries == 5
DefaultMaxRetries == 3
Null == 0
FetchConcurrency == 5
TargetYear == 2023

\* (ori, offense, year): the identity of a work item
Keys == { <<"CA0010000", "LAR", 2023>>, <<"TX0010000", "LAR", 2023>> }
Producers == {"p1", "p2"}
Workers == {"w1", "w2"}
Partitions == {"CA", "TX"}
\* the agencies fetch_agency_crimes is called for, concurrently
Oris == {"CA0010000", "TX0010000"}

VARIABLES
    \* PostgreSQL
    ledger,         \* committed rows of job_ledger: [subset of Keys -> row]
    raw,            \* identities with a committed row in raw_responses
    \* Redis
    stream,         \* pending_jobs: the append-only sequence of messages
    lastDelivered,  \* last-delivered id of group "workers" on pending_jobs
    pel,            \* pending entries list of the group: {<<consumer, id>>}
    failedStream,   \* failed_jobs: the number of dead-letter entries per identity
    \* producers (create_jobs_for_agencies)
    ppc, ptodo, ptx, pcreated, runs,
    \* workers (CrimeFetcher.run / process_job)
    wpc, wmsg, wjob, wresult, crashes,
    wrunning,       \* _running and not _shutdown_event.is_set(), per worker
    \* circuit breaker
    circuits,       \* _circuits: [subset of Partitions -> CircuitStatus]
    now,            \* datetime.utcnow()
    cbCall,         \* the last breaker call and what it returned: [op, id, ret]
    failsSince,     \* record_failure calls on a circuit since its last record_success
                    \* (reset deletes the circuit and its history)
    hoSuccs,        \* record_success calls on a circuit since it entered HALF_OPEN
    \* key pool
    pool,           \* "none" before construction, "ok", or "error" (ValueError)
    kpKeys,         \* _keys: the sequence of KeyUsage records
    kpIndex,        \* _index (0-based, as in the code)
    kpCall,         \* the last pool call: [op, key, idx, raised, examined]
    kpCalls,        \* pool calls made so far
    \* HTTP client: one entry per concurrent get_with_retry call
    gpc,            \* where the call is
    gcid,           \* circuit_id
    gn,             \* max_retries
    gattempt,       \* attempt, the loop variable of get_with_retry
    gkey,           \* api_key of the current get
    gres,           \* what the last get returned: "None" or "payload"
    gout,           \* the outcome of the last network call
    gpath,          \* the protections the current get has passed, in order
    gwaits,         \* the arguments of asyncio.sleep so far
    gtries,         \* get calls made by this get_with_retry
    semUsed,        \* slots of self.semaphore in use
    limLevel,       \* level of the limiter's bucket
    requestCount,   \* _request_count
    errorCount,     \* _error_count
    gets,           \* get attempts granted to the calls so far
    \* fetch_agency_crimes: one entry per agency whose call is running
    foffenses,      \* len(offenses) of the call, 0 when no call is running
    fsem,           \* sem._value: the free permits of the call's semaphore
    ftasks,         \* how many fetch_offense_range tasks of the call are where
    \* raw_responses, field by field
    rawRows,        \* the committed rows: [subset of Keys -> row]
    rawCall,        \* the last upsert: [key, by, version]
    rawCounted      \* the last count taken from a payload: [payload, by, count]

dbVars == <<ledger, raw>>
redisVars == <<stream, lastDelivered, pel, failedStream>>
producerVars == <<ppc, ptodo, ptx, pcreated, runs>>
workerVars == <<wpc, wmsg, wjob, wresult, crashes, wrunning>>
breakerVars == <<circuits, now, cbCall, failsSince, hoSuccs>>
pipelineVars == <<dbVars, redisVars, producerVars, workerVars>>
poolVars == <<pool, kpKeys, kpIndex, kpCall, kpCalls>>
clientVars == <<gpc, gcid, gn, gattempt, gkey, gres, gout, gpath, gwaits, gtries,
                semUsed, limLevel, requestCount, errorCount, gets>>
httpVars == <<poolVars, clientVars>>
fetchVars == <<foffenses, fsem, ftasks>>
storeVars == <<rawRows, rawCall, rawCounted>>
vars == <<pipelineVars, breakerVars, httpVars, fetchVars, storeVars>>

\* ------------------------------------------------------------ job ledger
\* JobLedger row as inserted by the producer (column defaults)
NewRow ==
    [status |-> "PENDING", attempts |-> 0, last_error |-> "None",
     started_at |-> FALSE, completed_at |-> FALSE, worker_id |-> "None"]

\* UPDATE job_ledger SET ... WHERE ori, offense, year = k: touches the
\* committed row if there is one, and no row otherwise
UpdateRow(l, k, new) ==
    IF k \in DOMAIN l THEN [l EXCEPT ![k] = new] ELSE l

\* INSERT of the rows of a committed transaction
InsertRows(l, ks) ==
    [k \in (DOMAIN l) \cup ks |-> IF k \in DOMAIN l THEN l[k] ELSE NewRow]

\* Job(...) of the producer, Job.to_dict / Job.from_dict on the wire
Job(k) == [ori |-> k[1], offense |-> k[2], year |-> k[3], attempts |-> 0]
JobKey(job) == <<job.ori, job.offense, job.year>>

NoJob == [ori |-> "", offense |-> "", year |-> 0, attempts |-> 0]
NoResult == [success |-> TRUE, error |-> "None"]

\* the get_with_retry calls that may run concurrently in one process
Calls == {"g1", "g2"}

\* no network call yet
NoOutcome == [kind |-> "none", status |-> 0, json |-> FALSE]

\* no upsert yet
NoUpsert == [key |-> << >>, by |-> "none", version |-> 0]
NoCount == [payload |-> << >>, by |-> "none", count |-> << >>]

\* no pool call yet
NoPoolCall == [op |-> "none", key |-> "", idx |-> 0, raised |-> FALSE, examined |-> << >>]

\* the work lists a producer run may be given: one agency, offense and year
TodoLists == { <<k>> : k \in Keys }

\* where a fetch_offense_range task can be.  The tasks of one call run the
\* same closure: the state keeps how many of them are at each place.
\*   new       created by gather, not started
\*   semWait   waiting in "async with sem"
\*   call      inside sem, at a call of client.get
\*   slotWait  waiting in "async with self.semaphore" of the client
\*   slot      holding a slot of the client: limiter, key, network call
\*   after     client.get has returned
\*   pause     inside sem, awaiting something else (asyncio.sleep of the
\*             backoff, the database session)
\*   done      returned
FetchPlaces == {"new", "semWait", "call", "slotWait", "slot", "after", "pause",
                "done"}
NoTasks == [p \in FetchPlaces |-> 0]

Init ==
    /\ ledger = << >>
    /\ raw = {}
    /\ stream = << >>
    /\ lastDelivered = 0
    /\ pel = {}
    /\ failedStream = [k \in Keys |-> 0]
    /\ ppc = [p \in Producers |-> "idle"]
    /\ ptodo = [p \in Producers |-> << >>]
    /\ ptx = [p \in Producers |-> {}]
    /\ pcreated = [p \in Producers |-> 0]
    /\ runs = 0
    /\ wpc = [w \in Workers |-> "idle"]
    /\ wmsg = [w \in Workers |-> 0]
    /\ wjob = [w \in Workers |-> NoJob]
    /\ wresult = [w \in Workers |-> NoResult]
    /\ crashes = 0
    /\ wrunning = [w \in Workers |-> TRUE]
    /\ circuits = << >>
    /\ now = 0
    /\ cbCall = [op |-> "none", id |-> "", ret |-> FALSE]
    /\ failsSince = [p \in Partitions |-> 0]
    /\ hoSuccs = [p \in Partitions |-> 0]
    /\ pool = "none"
    /\ kpKeys = << >>
    /\ kpIndex = 0
    /\ kpCall = NoPoolCall
    /\ kpCalls = 0
    /\ gpc = [c \in Calls |-> "idle"]
    /\ gcid = [c \in Calls |-> ""]
    /\ gn = [c \in Calls |-> 0]
    /\ gattempt = [c \in Calls |-> 0]
    /\ gkey = [c \in Calls |-> ""]
    /\ gres = [c \in Calls |-> "None"]
    /\ gout = [c \in Calls |-> NoOutcome]
    /\ gpath = [c \in Calls |-> << >>]
    /\ gwaits = [c \in Calls |-> << >>]
    /\ gtries = [c \in Calls |-> 0]
    /\ semUsed = 0
    /\ limLevel = 0
    /\ requestCount = 0
    /\ errorCount = 0
    /\ gets = 0
    /\ foffenses = [i \in Oris |-> 0]
    /\ fsem = [i \in Oris |-> 0]
    /\ ftasks = [i \in Oris |-> NoTasks]
    /\ rawRows = << >>
    /\ rawCall = NoUpsert
    /\ rawCounted = NoCount

\* ------------------------------------------------------------- producer
\* create_jobs_for_agencies is entered: one session (transaction) for the run
ProducerStart(p, todo) ==
    /\ ppc[p] = "idle"
    /\ runs < MaxRuns
    /\ runs' = runs + 1
    /\ ppc' = [ppc EXCEPT ![p] = "run"]
    /\ ptodo' = [ptodo EXCEPT ![p] = todo]
    /\ ptx' = [ptx EXCEPT ![p] = {}]
    /\ pcreated' = [pcreated EXCEPT ![p] = 0]
    /\ UNCHANGED <<dbVars, redisVars, workerVars, breakerVars, httpVars, fetchVars, storeVars>>

\* result.rowcount of INSERT ... ON CONFLICT DO NOTHING in p's transaction
RowCount(p, k) ==
    IF k \in DOMAIN ledger \/ k \in ptx[p] THEN 0 ELSE 1

\* queue.enqueue_job: XADD pending_jobs
EnqueueJob(s, job) == Append(s, job)

\* one iteration of the loop: the insert, and the publish if a row was inserted.
\* The insert waits while another open transaction holds the same key.
InsertJob(p) ==
    /\ ppc[p] = "run"
    /\ ptodo[p] # << >>
    /\ LET k == Head(ptodo[p]) IN
        /\ \A q \in Producers \ {p} : k \notin ptx[q]
        /\ IF RowCount(p, k) > 0
           THEN /\ ptx' = [ptx EXCEPT ![p] = @ \cup {k}]
                /\ stream' = EnqueueJob(stream, Job(k))
                /\ pcreated' = [pcreated EXCEPT ![p] = @ + 1]
           ELSE UNCHANGED <<ptx, stream, pcreated>>
    /\ ptodo' = [ptodo EXCEPT ![p] = Tail(@)]
    /\ UNCHANGED <<ppc, runs, dbVars, lastDelivered, pel, failedStream,
                   workerVars, breakerVars, httpVars, fetchVars, storeVars>>

\* the loop is over: the session commits and the run returns jobs_created
\* (pcreated[p] before this step)
ProducerCommit(p) ==
    /\ ppc[p] = "run"
    /\ ptodo[p] = << >>
    /\ ledger' = InsertRows(ledger, ptx[p])
    /\ ptx' = [ptx EXCEPT ![p] = {}]
    /\ ppc' = [ppc EXCEPT ![p] = "idle"]
    /\ pcreated' = [pcreated EXCEPT ![p] = 0]
    /\ UNCHANGED <<ptodo, runs, raw, redisVars, workerVars, breakerVars, httpVars, fetchVars, storeVars>>

\* a statement or the commit raises (or the process dies): the session rolls
\* back; what was published to Redis stays published
ProducerAbort(p) ==
    /\ ppc[p] = "run"
    /\ ptx' = [ptx EXCEPT ![p] = {}]
    /\ ptodo' = [ptodo EXCEPT ![p] = << >>]
    /\ ppc' = [ppc EXCEPT ![p] = "idle"]
    /\ pcreated' = [pcreated EXCEPT ![p] = 0]
    /\ UNCHANGED <<runs, dbVars, redisVars, workerVars, breakerVars, httpVars, fetchVars, storeVars>>

\* --------------------------------------------------------------- worker
\* the states of process_job between dequeue and return
InProcess == {"got", "marked", "fetched", "except", "ack"}

\* XREADGROUP GROUP workers <consumer> COUNT 1 STREAMS pending_jobs ">":
\* the id of the entry the group hands out next, 0 when every entry was delivered
XReadGroupNew == IF lastDelivered < Len(stream) THEN lastDelivered + 1 ELSE 0

\* ids the group has delivered and holds no longer: those acknowledged
Acked == {m \in 1..lastDelivered : \A c \in Workers : <<c, m>> \notin pel}

\* get_job as it would be if the read did not move the group's last-delivered
\* id (a plain XREAD from the consumer's own position)
GetJobStaleCursor(w) ==
    /\ wpc[w] = "idle"
    /\ XReadGroupNew # 0
    /\ LET m == XReadGroupNew IN
        /\ pel' = pel \cup {<<w, m>>}
        /\ wmsg' = [wmsg EXCEPT ![w] = m]
        /\ wjob' = [wjob EXCEPT ![w] = stream[m]]
    /\ wpc' = [wpc EXCEPT ![w] = "got"]
    /\ UNCHANGED <<stream, lastDelivered, failedStream, wresult, crashes, wrunning,
                   dbVars, producerVars, breakerVars, httpVars, fetchVars, storeVars>>

\* run -> get_job returns (message_id, job): the entry enters the group's
\* pending entries list under the consumer's name
GetJob(w) ==
    /\ wpc[w] = "idle"
    /\ XReadGroupNew # 0
    /\ LET m == XReadGroupNew IN
        /\ lastDelivered' = m
        /\ pel' = pel \cup {<<w, m>>}
        /\ wmsg' = [wmsg EXCEPT ![w] = m]
        /\ wjob' = [wjob EXCEPT ![w] = stream[m]]
    /\ wpc' = [wpc EXCEPT ![w] = "got"]
    /\ UNCHANGED <<stream, failedStream, wresult, crashes, wrunning,
                   dbVars, producerVars, breakerVars, httpVars, fetchVars, storeVars>>

\* the loop condition as it would be if the flag were never looked at
LoopContinuesAlways(w) == TRUE

\* while self._running and not self._shutdown_event.is_set(): stop clears the
\* one and sets the other together
LoopContinues(w) == wrunning[w]

\* where run is after an iteration: in get_job of the next one, or returned
AfterIteration(w) == IF LoopContinues(w) THEN "idle" ELSE "returned"

\* run -> get_job returns None after block_ms: continue
GetJobEmpty(w) ==
    /\ wpc[w] = "idle"
    /\ XReadGroupNew = 0
    /\ wpc' = [wpc EXCEPT ![w] = AfterIteration(w)]
    /\ UNCHANGED <<dbVars, redisVars, producerVars, wmsg, wjob, wresult,
                   crashes, wrunning, breakerVars, httpVars, fetchVars, storeVars>>

\* process_job, first session: the ledger row is marked IN_PROGRESS
MarkInProgress(w) ==
    /\ wpc[w] = "got"
    /\ LET k == JobKey(wjob[w]) IN
        ledger' = UpdateRow(ledger, k,
                    [ledger[k] EXCEPT !.status = "IN_PROGRESS",
                                      !.started_at = TRUE,
                                      !.worker_id = w,
                                      !.attempts = wjob[w].attempts + 1])
    /\ wpc' = [wpc EXCEPT ![w] = "marked"]
    /\ UNCHANGED <<raw, redisVars, producerVars, wmsg, wjob, wresult,
                   crashes, wrunning, breakerVars, httpVars, fetchVars, storeVars>>

\* an exception e reaches "except Exception as e" of process_job: the open
\* session has rolled back; result carries str(e) to the handler
Raised(w) ==
    /\ wresult' = [wresult EXCEPT ![w] = [success |-> FALSE, error |-> "exception"]]
    /\ wpc' = [wpc EXCEPT ![w] = "except"]

\* process_job, first session raises
MarkRaises(w) ==
    /\ wpc[w] = "got"
    /\ Raised(w)
    /\ UNCHANGED <<dbVars, redisVars, producerVars, wmsg, wjob,
                   crashes, wrunning, breakerVars, httpVars, fetchVars, storeVars>>

\* what fetch_crime_data makes of get_with_retry's answer and of the parse
FetchOutcomes == {"ok", "nodata", "parse"}

\* fetch_crime_data: the FetchResult it returns
FetchResult(outcome) ==
    CASE outcome = "ok" -> [success |-> TRUE, error |-> "None"]
      [] outcome = "nodata" -> [success |-> FALSE, error |-> "API returned no data"]
      [] outcome = "parse" -> [success |-> FALSE, error |-> "Parse error"]

\* process_job -> fetch_crime_data returns a FetchResult
Fetch(w, outcome) ==
    /\ wpc[w] = "marked"
    /\ wresult' = [wresult EXCEPT ![w] = FetchResult(outcome)]
    /\ wpc' = [wpc EXCEPT ![w] = "fetched"]
    /\ UNCHANGED <<dbVars, redisVars, producerVars, wmsg, wjob,
                   crashes, wrunning, breakerVars, httpVars, fetchVars, storeVars>>

\* process_job -> fetch_crime_data raises (FetchResult(raw_json=<not a dict>),
\* an error out of the key pool)
FetchRaises(w) ==
    /\ wpc[w] = "marked"
    /\ Raised(w)
    /\ UNCHANGED <<dbVars, redisVars, producerVars, wmsg, wjob,
                   crashes, wrunning, breakerVars, httpVars, fetchVars, storeVars>>

\* queue.move_to_failed: XADD failed_jobs
MoveToFailed(fs, job) == [fs EXCEPT ![JobKey(job)] = @ + 1]

\* process_job, second session, result.success: upsert of the raw response and
\* the ledger row set COMPLETED, committed together
PersistSuccess(w) ==
    /\ wpc[w] = "fetched"
    /\ wresult[w].success
    /\ LET k == JobKey(wjob[w]) IN
        /\ raw' = raw \cup {k}
        /\ ledger' = UpdateRow(ledger, k,
                        [ledger[k] EXCEPT !.status = "COMPLETED",
                                          !.completed_at = TRUE])
    /\ wpc' = [wpc EXCEPT ![w] = "ack"]
    /\ UNCHANGED <<redisVars, producerVars, wmsg, wjob, wresult,
                   crashes, wrunning, breakerVars, httpVars, fetchVars, storeVars>>

\* process_job, second session, not result.success: the ledger row set FAILED
\* and the job published to the dead-letter stream
PersistFailure(w) ==
    /\ wpc[w] = "fetched"
    /\ ~wresult[w].success
    /\ LET k == JobKey(wjob[w]) IN
        ledger' = UpdateRow(ledger, k,
                    [ledger[k] EXCEPT !.status = "FAILED",
                                      !.last_error = wresult[w].error])
    /\ failedStream' = MoveToFailed(failedStream, wjob[w])
    /\ wpc' = [wpc EXCEPT ![w] = "ack"]
    /\ UNCHANGED <<raw, stream, lastDelivered, pel, producerVars,
                   wmsg, wjob, wresult, crashes, wrunning, breakerVars, httpVars, fetchVars, storeVars>>

\* process_job, second session raises: the session rolls back.  When the commit
\* of the failure branch raises, move_to_failed has already been done.
PersistRaises(w, atCommit) ==
    /\ wpc[w] = "fetched"
    /\ IF atCommit /\ ~wresult[w].success
       THEN failedStream' = MoveToFailed(failedStream, wjob[w])
       ELSE UNCHANGED failedStream
    /\ Raised(w)
    /\ UNCHANGED <<dbVars, stream, lastDelivered, pel,
                   producerVars, wmsg, wjob, crashes, wrunning, breakerVars, httpVars, fetchVars, storeVars>>

\* the handler as it would be if it re-raised after the dead-letter publish:
\* the exception reaches run, which logs it and loops
ExceptHandlerReraises(w) ==
    /\ wpc[w] = "except"
    /\ failedStream' = MoveToFailed(failedStream, wjob[w])
    /\ wpc' = [wpc EXCEPT ![w] = "idle"]
    /\ wmsg' = [wmsg EXCEPT ![w] = 0]
    /\ wjob' = [wjob EXCEPT ![w] = NoJob]
    /\ wresult' = [wresult EXCEPT ![w] = NoResult]
    /\ UNCHANGED <<dbVars, stream, lastDelivered, pel,
                   producerVars, crashes, wrunning, breakerVars, httpVars, fetchVars, storeVars>>

\* process_job, except Exception as e: move_to_failed(job, str(e)); the
\* acknowledgement and "return False" follow
ExceptHandler(w) ==
    /\ wpc[w] = "except"
    /\ failedStream' = MoveToFailed(failedStream, wjob[w])
    /\ wpc' = [wpc EXCEPT ![w] = "ack"]
    /\ UNCHANGED <<dbVars, stream, lastDelivered, pel,
                   producerVars, wmsg, wjob, wresult, crashes, wrunning, breakerVars, httpVars, fetchVars, storeVars>>

\* queue.complete_job: XACK pending_jobs workers <id> removes the entry from the
\* pending entries list; process_job returns result.success (False from the
\* handler) and run tests its loop condition
CompleteJob(w) ==
    /\ wpc[w] = "ack"
    /\ pel' = {e \in pel : e[2] # wmsg[w]}
    /\ wpc' = [wpc EXCEPT ![w] = AfterIteration(w)]
    /\ wmsg' = [wmsg EXCEPT ![w] = 0]
    /\ wjob' = [wjob EXCEPT ![w] = NoJob]
    /\ wresult' = [wresult EXCEPT ![w] = NoResult]
    /\ UNCHANGED <<dbVars, stream, lastDelivered, failedStream,
                   producerVars, crashes, wrunning, breakerVars, httpVars, fetchVars, storeVars>>

\* stop(), from the signal handler or another task: self._running = False and
\* self._shutdown_event.set()
Stop(w) ==
    /\ wpc[w] \notin {"crashed", "returned"}
    /\ wrunning[w]
    /\ wrunning' = [wrunning EXCEPT ![w] = FALSE]
    /\ UNCHANGED <<dbVars, redisVars, producerVars, wpc, wmsg, wjob, wresult,
                   crashes, breakerVars, httpVars, fetchVars, storeVars>>

\* the worker process dies: nothing it holds is released
Crash(w) ==
    /\ wpc[w] \notin {"crashed", "returned"}
    /\ crashes < MaxCrashes
    /\ crashes' = crashes + 1
    /\ wpc' = [wpc EXCEPT ![w] = "crashed"]
    /\ UNCHANGED <<dbVars, redisVars, producerVars, wmsg, wjob, wresult,
                   wrunning, breakerVars, httpVars, fetchVars, storeVars>>

ProducerStep(p) ==
    \/ \E todo \in TodoLists : ProducerStart(p, todo)
    \/ InsertJob(p)
    \/ ProducerCommit(p)
    \/ ProducerAbort(p)

ProducerNext == \E p \in Producers : ProducerStep(p)

WorkerStep(w) ==
    \/ GetJob(w)
    \/ GetJobEmpty(w)
    \/ MarkInProgress(w)
    \/ MarkRaises(w)
    \/ \E outcome \in FetchOutcomes : Fetch(w, outcome)
    \/ FetchRaises(w)
    \/ PersistSuccess(w)
    \/ PersistFailure(w)
    \/ \E atCommit \in BOOLEAN : PersistRaises(w, atCommit)
    \/ ExceptHandler(w)
    \/ CompleteJob(w)

Next ==
    \/ ProducerNext
    \/ \E w \in Workers : WorkerStep(w)
    \/ \E w \in Workers : Crash(w)

Spec == Init /\ [][Next]_vars

\* the scheduler runs every live worker's next step
SpecLive == Spec /\ \A w \in Workers : WF_vars(WorkerStep(w))

\* the producer whose runs fill the queue while the workers are stopped
StopProducer == CHOOSE p \in Producers : TRUE

\* messages appended to pending_jobs for identity k
MsgCount(k) == Cardinality({i \in 1..Len(stream) : JobKey(stream[i]) = k})

\* a producer run is given work items that were not published before
FillQueue ==
    \/ \E todo \in TodoLists :
            /\ \A i \in 1..Len(todo) : MsgCount(todo[i]) = 0
            /\ ProducerStart(StopProducer, todo)
    \/ InsertJob(StopProducer)
    \/ ProducerCommit(StopProducer)
    \/ ProducerAbort(StopProducer)

NextStop ==
    \/ FillQueue
    \/ \E w \in Workers : WorkerStep(w)
    \/ \E w \in Workers : Stop(w)

\* workers that are told to stop and do not crash
SpecStop == Init /\ [][NextStop]_vars /\ \A w \in Workers : WF_vars(WorkerStep(w))

RECURSIVE XLenFailed(_)
\* XLEN failed_jobs, summed over the identities in S
XLenFailed(S) ==
    IF S = {} THEN 0
    ELSE LET k == CHOOSE x \in S : TRUE
         IN  failedStream[k] + XLenFailed(S \ {k})

\* JobQueue.get_queue_stats: the lengths of the three streams.  Nothing ever
\* appends to raw_results (save_result has no caller) and nothing removes an
\* entry from pending_jobs.
GetQueueStats ==
    [pending |-> Len(stream), results |-> 0, failed |-> XLenFailed(Keys)]

\* ---------------------------------------------------------- system routes

\* the rows WHERE status = FAILED
FailedRows == {k \in DOMAIN ledger : ledger[k].status = "FAILED"}

\* POST /jobs/retry-failed: one UPDATE of the rows selected among the FAILED
\* ones, committed when the session closes; the statement may raise, and the
\* session rolls back.  Nothing is written to Redis.
RetryFailedJobs(selected, raises) ==
    /\ selected \subseteq FailedRows
    /\ ledger' = IF raises THEN ledger
                 ELSE [k \in DOMAIN ledger |->
                        IF k \in selected
                        THEN [ledger[k] EXCEPT !.status = "PENDING",
                                               !.attempts = 0,
                                               !.last_error = "None"]
                        ELSE ledger[k]]
    /\ UNCHANGED <<raw, redisVars, producerVars, workerVars, breakerVars,
                   httpVars, fetchVars, storeVars>>

NextRequeue ==
    \/ FillQueue
    \/ \E w \in Workers : WorkerStep(w)
    \/ \E selected \in SUBSET Keys : \E raises \in BOOLEAN :
            RetryFailedJobs(selected, raises)

\* the pipeline with an operator who requeues failed items
SpecRequeue ==
    Init /\ [][NextRequeue]_vars /\ \A w \in Workers : WF_vars(WorkerStep(w))

\* ----------------------------------------------------- the pilot run

\* run_phase1: create_jobs_for_agencies has returned (its session commits on
\* exit), the workers are created and the wait loop is entered
PilotCommit ==
    /\ ppc[StopProducer] = "run"
    /\ ptodo[StopProducer] = << >>
    /\ ledger' = InsertRows(ledger, ptx[StopProducer])
    /\ ptx' = [ptx EXCEPT ![StopProducer] = {}]
    /\ ppc' = [ppc EXCEPT ![StopProducer] = "wait"]
    /\ pcreated' = [pcreated EXCEPT ![StopProducer] = 0]
    /\ UNCHANGED <<ptodo, runs, raw, redisVars, workerVars, breakerVars, httpVars, fetchVars, storeVars>>

\* run_phase1, one pass of "while True": with stats["pending"] == 0 the loop
\* is left and every worker is told to stop, else the run sleeps
PilotPoll ==
    /\ ppc[StopProducer] = "wait"
    /\ IF GetQueueStats.pending = 0
       THEN /\ ppc' = [ppc EXCEPT ![StopProducer] = "done"]
            /\ wrunning' = [w \in Workers |-> FALSE]
       ELSE /\ ppc' = [ppc EXCEPT ![StopProducer] = "sleep"]
            /\ UNCHANGED wrunning
    /\ UNCHANGED <<ptodo, ptx, pcreated, runs, dbVars, redisVars,
                   wpc, wmsg, wjob, wresult, crashes,
                   breakerVars, httpVars, fetchVars, storeVars>>

\* run_phase1: asyncio.sleep(10) is over
PilotWake ==
    /\ ppc[StopProducer] = "sleep"
    /\ ppc' = [ppc EXCEPT ![StopProducer] = "wait"]
    /\ UNCHANGED <<ptodo, ptx, pcreated, runs, dbVars, redisVars, workerVars,
                   breakerVars, httpVars, fetchVars, storeVars>>

\* the pilot run for the agencies found, possibly none, with workers that run
\* once the jobs are created; the event loop runs every task that can run
SpecPilot ==
    /\ Init
    /\ [][ \/ \E todo \in TodoLists \cup {<< >>} : ProducerStart(StopProducer, todo)
           \/ InsertJob(StopProducer)
           \/ PilotCommit
           \/ PilotPoll
           \/ PilotWake
           \/ \E w \in Workers :
                /\ ppc[StopProducer] \in {"wait", "sleep", "done"}
                /\ WorkerStep(w) ]_vars
    /\ \A w \in Workers : WF_vars(WorkerStep(w))
    /\ WF_vars(PilotPoll) /\ WF_vars(PilotWake)

\* ------------------------------------------------------- circuit breaker
\* CircuitStatus() as record_failure creates it
NewCircuit ==
    [state |-> "CLOSED", failures |-> 0, last_failure |-> NoTime,
     cooldown_until |-> NoTime, success_count |-> 0]

\* CircuitStatus.is_available, with t the clock it reads
StatusIsAvailable(c, t) ==
    CASE c.state = "CLOSED" -> TRUE
      [] c.state = "OPEN" -> (c.cooldown_until # NoTime /\ t >= c.cooldown_until)
      [] c.state = "HALF_OPEN" -> TRUE
      [] OTHER -> FALSE

\* the cooldown test as it would be with > for >=
CooldownOverLate(c, t) == c.cooldown_until # NoTime /\ t > c.cooldown_until

\* the cooldown of an OPEN circuit is over at time t
CooldownOver(c, t) == c.cooldown_until # NoTime /\ t >= c.cooldown_until

\* CircuitBreaker.is_available(id): the critical section
IsAvailableCall(id) ==
    IF id \notin DOMAIN circuits
    THEN /\ cbCall' = [op |-> "is_available", id |-> id, ret |-> TRUE]
         /\ UNCHANGED <<circuits, hoSuccs>>
    ELSE LET c == circuits[id] IN
         IF c.state = "OPEN" /\ CooldownOver(c, now)
         THEN /\ circuits' = [circuits EXCEPT ![id] =
                                 [c EXCEPT !.state = "HALF_OPEN",
                                           !.success_count = 0]]
              /\ hoSuccs' = [hoSuccs EXCEPT ![id] = 0]
              /\ cbCall' = [op |-> "is_available", id |-> id, ret |-> TRUE]
         ELSE /\ cbCall' = [op |-> "is_available", id |-> id,
                            ret |-> StatusIsAvailable(c, now)]
              /\ UNCHANGED <<circuits, hoSuccs>>

\* CircuitBreaker.is_available(id), called on its own
IsAvailable(id) ==
    /\ IsAvailableCall(id)
    /\ UNCHANGED <<now, failsSince, pipelineVars, fetchVars, storeVars, httpVars>>

\* the closing test as it would be with > for >=
ClosesAtLate(n) == n > HalfOpenSuccesses

\* the success count at which record_success closes a HALF_OPEN circuit
ClosesAt(n) == n >= HalfOpenSuccesses

\* CircuitBreaker.record_success(id): the critical section
RecordSuccessCall(id) ==
    /\ cbCall' = [op |-> "record_success", id |-> id, ret |-> FALSE]
    /\ failsSince' = [failsSince EXCEPT ![id] = 0]
    /\ IF id \notin DOMAIN circuits
       THEN UNCHANGED <<circuits, hoSuccs>>
       ELSE LET c == circuits[id] IN
            CASE c.state = "HALF_OPEN" ->
                    /\ hoSuccs' = [hoSuccs EXCEPT ![id] = @ + 1]
                    /\ circuits' = [circuits EXCEPT ![id] =
                        IF ClosesAt(c.success_count + 1)
                        THEN [c EXCEPT !.success_count = @ + 1,
                                       !.state = "CLOSED",
                                       !.failures = 0,
                                       !.cooldown_until = NoTime]
                        ELSE [c EXCEPT !.success_count = @ + 1]]
              [] c.state = "CLOSED" ->
                    /\ circuits' = [circuits EXCEPT ![id] = [c EXCEPT !.failures = 0]]
                    /\ UNCHANGED hoSuccs
              [] OTHER -> UNCHANGED <<circuits, hoSuccs>>

\* CircuitBreaker.record_success(id), called on its own
RecordSuccess(id) ==
    /\ RecordSuccessCall(id)
    /\ UNCHANGED <<now, pipelineVars, fetchVars, storeVars, httpVars>>

\* circuit.failures, 0 for a partition without a circuit
FailuresOfCircuit(id) == IF id \in DOMAIN circuits THEN circuits[id].failures ELSE 0

\* the threshold test as it would be one failure early
TripsEarly(n) == n >= FailureThreshold - 1

\* the threshold test as it would be with > for >=
TripsLate(n) == n > FailureThreshold

\* the failure count at which record_failure trips a circuit
Trips(n) == n >= FailureThreshold

\* record_failure as it would be if reopening a HALF_OPEN circuit kept the
\* cooldown-expiry of the previous trip
AfterFailureStaleCooldown(c) ==
    LET c1 == [c EXCEPT !.failures = @ + 1, !.last_failure = now] IN
    IF c1.state = "HALF_OPEN"
    THEN [c1 EXCEPT !.state = "OPEN"]
    ELSE IF Trips(c1.failures) /\ c1.state # "OPEN"
         THEN [c1 EXCEPT !.state = "OPEN", !.cooldown_until = now + CooldownTicks]
         ELSE c1

\* record_failure as it would be if a failure at or over the threshold opened
\* the circuit anew whatever its state, restarting the cooldown of an OPEN one
AfterFailureExtends(c) ==
    LET c1 == [c EXCEPT !.failures = @ + 1, !.last_failure = now] IN
    IF Trips(c1.failures) \/ c1.state = "HALF_OPEN"
    THEN [c1 EXCEPT !.state = "OPEN", !.cooldown_until = now + CooldownTicks]
    ELSE c1

\* CircuitBreaker.record_failure(id): the circuit after the call
AfterFailure(c) ==
    LET c1 == [c EXCEPT !.failures = @ + 1, !.last_failure = now] IN
    IF (Trips(c1.failures) /\ c1.state # "OPEN") \/ c1.state = "HALF_OPEN"
    THEN [c1 EXCEPT !.state = "OPEN", !.cooldown_until = now + CooldownTicks]
    ELSE c1

\* CircuitBreaker.record_failure(id): the critical section; True when the
\* call tripped the circuit
RecordFailureCall(id) ==
    LET c == IF id \in DOMAIN circuits THEN circuits[id] ELSE NewCircuit IN
    /\ circuits' = [p \in (DOMAIN circuits) \cup {id} |->
                        IF p = id THEN AfterFailure(c) ELSE circuits[p]]
    /\ cbCall' = [op |-> "record_failure", id |-> id,
                  ret |-> (c.state # "OPEN" /\ AfterFailure(c).state = "OPEN")]
    /\ failsSince' = [failsSince EXCEPT ![id] = @ + 1]
    /\ UNCHANGED hoSuccs

\* CircuitBreaker.record_failure(id), called on its own
RecordFailure(id) ==
    /\ FailuresOfCircuit(id) < MaxFailures
    /\ RecordFailureCall(id)
    /\ UNCHANGED <<now, pipelineVars, fetchVars, storeVars, httpVars>>

\* reset as it would be if it cleared every circuit (reset_all)
ResetEvery(id) ==
    /\ circuits' = << >>
    /\ cbCall' = [op |-> "reset", id |-> id, ret |-> FALSE]
    /\ failsSince' = [failsSince EXCEPT ![id] = 0]
    /\ hoSuccs' = [hoSuccs EXCEPT ![id] = 0]
    /\ UNCHANGED <<now, pipelineVars, fetchVars, storeVars, httpVars>>

\* CircuitBreaker.reset(id): del self._circuits[id]
Reset(id) ==
    /\ circuits' = [p \in (DOMAIN circuits) \ {id} |-> circuits[p]]
    /\ cbCall' = [op |-> "reset", id |-> id, ret |-> FALSE]
    /\ failsSince' = [failsSince EXCEPT ![id] = 0]
    /\ hoSuccs' = [hoSuccs EXCEPT ![id] = 0]
    /\ UNCHANGED <<now, pipelineVars, fetchVars, storeVars, httpVars>>

\* time passes between two calls
Tick ==
    /\ now < MaxTime
    /\ now' = now + 1
    /\ UNCHANGED <<circuits, cbCall, failsSince, hoSuccs, pipelineVars, fetchVars, storeVars, httpVars>>

NextBreaker ==
    \/ \E id \in Partitions :
        \/ IsAvailable(id)
        \/ RecordSuccess(id)
        \/ RecordFailure(id)
        \/ Reset(id)
    \/ Tick

SpecBreaker == Init /\ [][NextBreaker]_vars

\* --------------------------------------------------------------- key pool
\* the strings a configured credential may be (an unset API_KEY_n is "")
KeyStrings == {"", "key1", "key2"}

\* the credential lists a pool may be built from
KeyConfigs == UNION { [1..n -> KeyStrings] : n \in 0..MaxKeys }

\* [k for k in keys if k]
RECURSIVE NonEmptyKeys(_)
NonEmptyKeys(ks) ==
    IF ks = << >> THEN << >>
    ELSE IF Head(ks) = "" THEN NonEmptyKeys(Tail(ks))
         ELSE <<Head(ks)>> \o NonEmptyKeys(Tail(ks))

\* KeyUsage(key=k); last_used is written and never read, and is left out
KeyUsage(k) ==
    [key |-> k, requests_made |-> 0, errors |-> 0, rate_limited_until |-> NoTime]

\* KeyPool.__init__(keys): ValueError on an empty list, else one KeyUsage per
\* non-empty string
KeyPoolInit(ks) ==
    IF ks = << >>
    THEN /\ pool' = "error"
         /\ UNCHANGED <<kpKeys, kpIndex>>
    ELSE /\ pool' = "ok"
         /\ kpKeys' = [i \in 1..Len(NonEmptyKeys(ks)) |-> KeyUsage(NonEmptyKeys(ks)[i])]
         /\ kpIndex' = 0

\* KeyPool(keys) called directly
NewKeyPool(ks) ==
    /\ pool = "none"
    /\ KeyPoolInit(ks)
    /\ UNCHANGED <<kpCall, kpCalls, pipelineVars, fetchVars, storeVars, breakerVars, clientVars>>

\* create_key_pool_from_settings with API_KEY_1.. = ks: settings.api.api_keys
\* drops the empty strings, an empty result is a ValueError
CreateKeyPoolFromSettings(ks) ==
    /\ pool = "none"
    /\ IF NonEmptyKeys(ks) = << >>
       THEN pool' = "error" /\ UNCHANGED <<kpKeys, kpIndex>>
       ELSE KeyPoolInit(NonEmptyKeys(ks))
    /\ UNCHANGED <<kpCall, kpCalls, pipelineVars, fetchVars, storeVars, breakerVars, clientVars>>

\* the rate-limit test as it would be with >= for >
RateLimitedInclusive(ku, t) ==
    ku.rate_limited_until # NoTime /\ ku.rate_limited_until >= t

\* key_usage.rate_limited_until and key_usage.rate_limited_until > now
RateLimited(ku, t) == ku.rate_limited_until # NoTime /\ ku.rate_limited_until > t

\* the scan as it would be if it started at the first key on every call
ScanPosFromFirst(j) == (j % Len(kpKeys)) + 1

\* the position (1-based) the loop of get_next_key looks at in iteration j
ScanPos(j) == ((kpIndex + j) % Len(kpKeys)) + 1

\* the iterations of the loop that would find a key that is not rate-limited
FreeIterations ==
    {j \in 0..(Len(kpKeys) - 1) : ~RateLimited(kpKeys[ScanPos(j)], now)}

\* the fallback as it would be if it took the last key of the list
FallbackPosLast == Len(kpKeys)

\* self._keys[0]: the key returned when the loop found none
FallbackPos == 1

\* requests_made += 1 on the key at position i
UseKey(ks, i) ==
    [ks EXCEPT ![i] = [@ EXCEPT !.requests_made = @ + 1]]

\* KeyPool.get_next_key: the critical section
GetNextKeyCall ==
    /\ kpCalls' = kpCalls + 1
    /\ IF Len(kpKeys) = 0
       THEN \* range(0) is empty and self._keys[0] raises IndexError
            /\ kpCall' = [op |-> "get_next_key", key |-> "", idx |-> 0,
                          raised |-> TRUE, examined |-> << >>]
            /\ UNCHANGED <<kpKeys, kpIndex>>
       ELSE IF FreeIterations # {}
            THEN LET j == CHOOSE x \in FreeIterations :
                                \A y \in FreeIterations : x <= y
                 IN /\ kpKeys' = UseKey(kpKeys, ScanPos(j))
                    /\ kpIndex' = (kpIndex + j + 1) % Len(kpKeys)
                    /\ kpCall' = [op |-> "get_next_key",
                                  key |-> kpKeys[ScanPos(j)].key,
                                  idx |-> ScanPos(j), raised |-> FALSE,
                                  examined |-> [i \in 1..(j + 1) |-> ScanPos(i - 1)]]
            ELSE /\ kpKeys' = UseKey(kpKeys, FallbackPos)
                 /\ kpIndex' = (kpIndex + Len(kpKeys)) % Len(kpKeys)
                 /\ kpCall' = [op |-> "get_next_key",
                               key |-> kpKeys[FallbackPos].key,
                               idx |-> FallbackPos, raised |-> FALSE,
                               examined |-> [i \in 1..Len(kpKeys) |-> ScanPos(i - 1)]]

\* KeyPool.get_next_key, called on its own
GetNextKey ==
    /\ pool = "ok"
    /\ kpCalls < MaxPoolCalls
    /\ GetNextKeyCall
    /\ UNCHANGED <<pool, pipelineVars, fetchVars, storeVars, breakerVars, clientVars>>

\* the position as it would be if the last key of the list were taken
FirstWithKeyLast(k) == Len(kpKeys)

\* the first position whose key is k, 0 when there is none
FirstWithKey(k) ==
    IF \E i \in 1..Len(kpKeys) : kpKeys[i].key = k
    THEN CHOOSE i \in 1..Len(kpKeys) :
            /\ kpKeys[i].key = k
            /\ \A h \in 1..(i - 1) : kpKeys[h].key # k
    ELSE 0

\* KeyPool.mark_rate_limited(key) with the default cooldown: the critical
\* section
MarkRateLimitedCall(k) ==
    /\ kpCalls' = kpCalls + 1
    /\ kpKeys' = IF FirstWithKey(k) = 0 THEN kpKeys
                 ELSE [kpKeys EXCEPT ![FirstWithKey(k)] =
                        [@ EXCEPT !.rate_limited_until = now + KeyCooldownTicks,
                                  !.errors = @ + 1]]
    /\ kpCall' = [op |-> "mark_rate_limited", key |-> k, idx |-> FirstWithKey(k),
                  raised |-> FALSE, examined |-> << >>]
    /\ UNCHANGED kpIndex

\* KeyPool.mark_rate_limited(key), called on its own
MarkRateLimited(k) ==
    /\ pool = "ok"
    /\ kpCalls < MaxPoolCalls
    /\ MarkRateLimitedCall(k)
    /\ UNCHANGED <<pool, pipelineVars, fetchVars, storeVars, breakerVars, clientVars>>

\* KeyPool.mark_error(key)
MarkError(k) ==
    /\ pool = "ok"
    /\ kpCalls < MaxPoolCalls
    /\ kpCalls' = kpCalls + 1
    /\ kpKeys' = IF FirstWithKey(k) = 0 THEN kpKeys
                 ELSE [kpKeys EXCEPT ![FirstWithKey(k)] = [@ EXCEPT !.errors = @ + 1]]
    /\ kpCall' = [op |-> "mark_error", key |-> k, idx |-> FirstWithKey(k),
                  raised |-> FALSE, examined |-> << >>]
    /\ UNCHANGED <<pool, kpIndex, pipelineVars, fetchVars, storeVars, breakerVars, clientVars>>

\* KeyPool.reset_stats
ResetStats ==
    /\ pool = "ok"
    /\ kpCalls < MaxPoolCalls
    /\ kpCalls' = kpCalls + 1
    /\ kpKeys' = [i \in 1..Len(kpKeys) |->
                    [kpKeys[i] EXCEPT !.requests_made = 0, !.errors = 0,
                                      !.rate_limited_until = NoTime]]
    /\ kpCall' = [op |-> "reset_stats", key |-> "", idx |-> 0,
                  raised |-> FALSE, examined |-> << >>]
    /\ UNCHANGED <<pool, kpIndex, pipelineVars, fetchVars, storeVars, breakerVars, clientVars>>

NextKeyPool ==
    \/ \E ks \in KeyConfigs : NewKeyPool(ks)
    \/ \E ks \in KeyConfigs : CreateKeyPoolFromSettings(ks)
    \/ GetNextKey
    \/ \E k \in KeyStrings \ {""} : MarkRateLimited(k)
    \/ \E k \in KeyStrings \ {""} : MarkError(k)
    \/ ResetStats
    \/ Tick

SpecKeyPool == Init /\ [][NextKeyPool]_vars

\* ------------------------------------------------------------ HTTP client
\* circuit_id = None
NoCircuit == ""

\* what the network call of a get may end in: a response with a status (the
\* body of a 200 may fail to decode), asyncio.TimeoutError, aiohttp.ClientError
Outcomes ==
    { [kind |-> "response", status |-> st, json |-> TRUE] :
            st \in {200, 404, 429, 500, 501} }
    \cup { [kind |-> "response", status |-> 200, json |-> FALSE],
           [kind |-> "timeout", status |-> 0, json |-> FALSE],
           [kind |-> "client_error", status |-> 0, json |-> FALSE] }

\* elif response.status in (500, 502, 503, 504)
ServerErrors == {500, 502, 503, 504}

\* the positions at which a call runs on without giving up the event loop:
\* an uncontended lock, a free semaphore slot and a limiter with capacity are
\* taken without suspending
RunningAt == {"loop", "check", "sem", "token", "key", "ret"}

\* the event loop is free: every call is suspended, finished or not started
NoneRunning == \A d \in Calls : gpc[d] \notin RunningAt

\* the calls are interchangeable: they are numbered in the order they start
CallOrder == [c \in Calls |-> IF c = "g1" THEN 1 ELSE 2]

\* the circuit_id a call is given: every caller passes the partition of its
\* item (the first two characters of the ORI, a state abbreviation, "US")
ClientCircuits == {"CA"}

\* the credential lists the client's pool is built from
ClientKeyConfigs == { <<"key1">>, <<"key1", "key2">> }

\* a new frame of get_with_retry(path, params, circuit_id = id,
\* max_retries = n)
EnterGetWithRetry(c, id, n) ==
    /\ pool = "ok"
    /\ NoneRunning
    /\ gets' = gets + n
    /\ gpc' = [gpc EXCEPT ![c] = "loop"]
    /\ gcid' = [gcid EXCEPT ![c] = id]
    /\ gn' = [gn EXCEPT ![c] = n]
    /\ gattempt' = [gattempt EXCEPT ![c] = 0]
    /\ gkey' = [gkey EXCEPT ![c] = ""]
    /\ gres' = [gres EXCEPT ![c] = "None"]
    /\ gout' = [gout EXCEPT ![c] = NoOutcome]
    /\ gpath' = [gpath EXCEPT ![c] = << >>]
    /\ gwaits' = [gwaits EXCEPT ![c] = << >>]
    /\ gtries' = [gtries EXCEPT ![c] = 0]
    /\ UNCHANGED <<semUsed, limLevel, requestCount, errorCount,
                   poolVars, breakerVars, pipelineVars, fetchVars, storeVars>>

\* get_with_retry is called by some caller of the client
GetWithRetryStart(c, id, n) ==
    /\ gpc[c] = "idle"
    /\ \A d \in Calls : CallOrder[d] < CallOrder[c] => gpc[d] # "idle"
    /\ gets + n <= MaxGets
    /\ EnterGetWithRetry(c, id, n)

\* get_with_retry returns: its frame is gone, the returned value stays
Return(c) ==
    /\ gpc' = [gpc EXCEPT ![c] = "done"]
    /\ gcid' = [gcid EXCEPT ![c] = ""]
    /\ gn' = [gn EXCEPT ![c] = 0]
    /\ gattempt' = [gattempt EXCEPT ![c] = 0]
    /\ gtries' = [gtries EXCEPT ![c] = 0]
    /\ gwaits' = [gwaits EXCEPT ![c] = << >>]

\* for attempt in range(max_retries): the next get is called, or the loop is
\* over and get_with_retry returns None
LoopHead(c) ==
    /\ gpc[c] = "loop"
    /\ IF gattempt[c] < gn[c]
       THEN /\ gpc' = [gpc EXCEPT ![c] = "check"]
            /\ gtries' = [gtries EXCEPT ![c] = @ + 1]
            /\ gpath' = [gpath EXCEPT ![c] = << >>]
            /\ gkey' = [gkey EXCEPT ![c] = ""]
            /\ UNCHANGED gres
            /\ UNCHANGED <<gcid, gn, gattempt, gwaits>>
       ELSE /\ gres' = [gres EXCEPT ![c] = "None"]
            /\ Return(c)
            /\ UNCHANGED <<gpath, gkey>>
    /\ UNCHANGED <<gout, semUsed, limLevel, requestCount, errorCount, gets,
                   poolVars, breakerVars, pipelineVars, fetchVars, storeVars>>

\* the availability check as it would be if its result were ignored
CheckCircuitIgnored(c) ==
    /\ gpc[c] = "check"
    /\ IF gcid[c] = NoCircuit
       THEN UNCHANGED <<circuits, hoSuccs, cbCall>>
       ELSE IsAvailableCall(gcid[c])
    /\ gpc' = [gpc EXCEPT ![c] = "sem"]
    /\ gpath' = [gpath EXCEPT ![c] = Append(@, "circuit")]
    /\ UNCHANGED <<gres, gcid, gn, gattempt, gkey, gout, gwaits, gtries, semUsed,
                   limLevel, requestCount, errorCount, gets,
                   now, failsSince, poolVars, pipelineVars, fetchVars, storeVars>>

\* get: if circuit_id and not await circuit_breaker.is_available: return None
CheckCircuit(c) ==
    /\ gpc[c] = "check"
    /\ IF gcid[c] = NoCircuit
       THEN /\ gpc' = [gpc EXCEPT ![c] = "sem"]
            /\ UNCHANGED <<gres, gpath, circuits, hoSuccs, cbCall>>
       ELSE /\ IsAvailableCall(gcid[c])
            /\ IF cbCall'.ret
               THEN /\ gpc' = [gpc EXCEPT ![c] = "sem"]
                    /\ gpath' = [gpath EXCEPT ![c] = Append(@, "circuit")]
                    /\ UNCHANGED gres
               ELSE /\ gpc' = [gpc EXCEPT ![c] = "ret"]
                    /\ gres' = [gres EXCEPT ![c] = "None"]
                    /\ UNCHANGED gpath
    /\ UNCHANGED <<gcid, gn, gattempt, gkey, gout, gwaits, gtries, semUsed,
                   limLevel, requestCount, errorCount, gets,
                   now, failsSince, poolVars, pipelineVars, fetchVars, storeVars>>

\* async with self.semaphore: a free slot is taken at once, else the call waits
AcquireSlot(c) ==
    /\ gpc[c] = "sem"
    /\ IF semUsed < MaxConcurrent
       THEN /\ semUsed' = semUsed + 1
            /\ gpc' = [gpc EXCEPT ![c] = "token"]
            /\ gpath' = [gpath EXCEPT ![c] = Append(@, "slot")]
       ELSE /\ gpc' = [gpc EXCEPT ![c] = "semWait"]
            /\ UNCHANGED <<semUsed, gpath>>
    /\ UNCHANGED <<gcid, gn, gattempt, gkey, gres, gout, gwaits, gtries,
                   limLevel, requestCount, errorCount, gets,
                   poolVars, breakerVars, pipelineVars, fetchVars, storeVars>>

\* a call waiting for the semaphore is given a released slot
SlotGranted(c) ==
    /\ gpc[c] = "semWait"
    /\ NoneRunning
    /\ semUsed < MaxConcurrent
    /\ semUsed' = semUsed + 1
    /\ gpc' = [gpc EXCEPT ![c] = "token"]
    /\ gpath' = [gpath EXCEPT ![c] = Append(@, "slot")]
    /\ UNCHANGED <<gcid, gn, gattempt, gkey, gres, gout, gwaits, gtries,
                   limLevel, requestCount, errorCount, gets,
                   poolVars, breakerVars, pipelineVars, fetchVars, storeVars>>

\* await self.limiter.acquire(), inside the semaphore: capacity is taken at
\* once, else the call waits holding its slot
AcquireToken(c) ==
    /\ gpc[c] = "token"
    /\ IF limLevel < RequestsPerSecond
       THEN /\ limLevel' = limLevel + 1
            /\ gpc' = [gpc EXCEPT ![c] = "key"]
            /\ gpath' = [gpath EXCEPT ![c] = Append(@, "token")]
       ELSE /\ gpc' = [gpc EXCEPT ![c] = "tokenWait"]
            /\ UNCHANGED <<limLevel, gpath>>
    /\ UNCHANGED <<gcid, gn, gattempt, gkey, gres, gout, gwaits, gtries,
                   semUsed, requestCount, errorCount, gets,
                   poolVars, breakerVars, pipelineVars, fetchVars, storeVars>>

\* a call waiting for the limiter finds capacity
TokenGranted(c) ==
    /\ gpc[c] = "tokenWait"
    /\ NoneRunning
    /\ limLevel < RequestsPerSecond
    /\ limLevel' = limLevel + 1
    /\ gpc' = [gpc EXCEPT ![c] = "key"]
    /\ gpath' = [gpath EXCEPT ![c] = Append(@, "token")]
    /\ UNCHANGED <<gcid, gn, gattempt, gkey, gres, gout, gwaits, gtries,
                   semUsed, requestCount, errorCount, gets,
                   poolVars, breakerVars, pipelineVars, fetchVars, storeVars>>

\* the limiter's bucket leaks with time
LimiterLeak ==
    /\ limLevel > 0
    /\ limLevel' = limLevel - 1
    /\ UNCHANGED <<gpc, gcid, gn, gattempt, gkey, gres, gout, gpath, gwaits,
                   gtries, semUsed, requestCount, errorCount, gets,
                   poolVars, breakerVars, pipelineVars, fetchVars, storeVars>>

\* api_key = await self.key_pool.get_next_key(), then session.get(...) is
\* entered: the network call is in flight
SelectKey(c) ==
    /\ gpc[c] = "key"
    /\ GetNextKeyCall
    /\ IF kpCall'.raised
       THEN \* the IndexError leaves get and get_with_retry; the slot is released
            /\ Return(c)
            /\ gres' = [gres EXCEPT ![c] = "raised"]
            /\ semUsed' = semUsed - 1
            /\ UNCHANGED <<gkey, gpath>>
       ELSE /\ gpc' = [gpc EXCEPT ![c] = "flight"]
            /\ gkey' = [gkey EXCEPT ![c] = kpCall'.key]
            /\ gpath' = [gpath EXCEPT ![c] = @ \o <<"key", "network">>]
            /\ UNCHANGED <<gres, semUsed, gcid, gn, gattempt, gwaits, gtries>>
    /\ UNCHANGED <<gout, limLevel,
                   requestCount, errorCount, gets,
                   pool, breakerVars, pipelineVars, fetchVars, storeVars>>

\* the breaker is not called
BreakerUntouched == UNCHANGED <<circuits, cbCall, failsSince, hoSuccs>>

\* the key pool is not called
PoolUntouched == UNCHANGED <<kpKeys, kpIndex, kpCall, kpCalls>>

\* get: the network call ends in outcome o and get returns
Respond(c, o) ==
    /\ gpc[c] = "flight"
    /\ NoneRunning
    /\ LET id == gcid[c] IN
       CASE o.kind = "response" /\ o.status = 200 ->
                /\ requestCount' = requestCount + 1
                /\ IF id # NoCircuit THEN RecordSuccessCall(id) ELSE BreakerUntouched
                /\ PoolUntouched
                /\ IF o.json
                   THEN /\ gres' = [gres EXCEPT ![c] = "payload"]
                        /\ UNCHANGED errorCount
                   ELSE \* response.json() raises: except Exception
                        /\ gres' = [gres EXCEPT ![c] = "None"]
                        /\ errorCount' = errorCount + 1
         [] o.kind = "response" /\ o.status = 429 ->
                /\ requestCount' = requestCount + 1
                /\ MarkRateLimitedCall(gkey[c])
                /\ errorCount' = errorCount + 1
                /\ BreakerUntouched
                /\ gres' = [gres EXCEPT ![c] = "None"]
         [] o.kind = "response" /\ o.status \in ServerErrors ->
                /\ requestCount' = requestCount + 1
                /\ errorCount' = errorCount + 1
                /\ IF id # NoCircuit THEN RecordFailureCall(id) ELSE BreakerUntouched
                /\ PoolUntouched
                /\ gres' = [gres EXCEPT ![c] = "None"]
         [] o.kind = "response" /\ o.status \notin ({200, 429} \cup ServerErrors) ->
                /\ requestCount' = requestCount + 1
                /\ errorCount' = errorCount + 1
                /\ BreakerUntouched
                /\ PoolUntouched
                /\ gres' = [gres EXCEPT ![c] = "None"]
         [] o.kind = "timeout" ->
                /\ errorCount' = errorCount + 1
                /\ IF id # NoCircuit THEN RecordFailureCall(id) ELSE BreakerUntouched
                /\ PoolUntouched
                /\ gres' = [gres EXCEPT ![c] = "None"]
                /\ UNCHANGED requestCount
         [] o.kind = "client_error" ->
                /\ errorCount' = errorCount + 1
                /\ BreakerUntouched
                /\ PoolUntouched
                /\ gres' = [gres EXCEPT ![c] = "None"]
                /\ UNCHANGED requestCount
    /\ semUsed' = semUsed - 1
    /\ gpc' = [gpc EXCEPT ![c] = "ret"]
    /\ gout' = [gout EXCEPT ![c] = o]
    /\ UNCHANGED <<gcid, gn, gattempt, gkey, gpath, gwaits, gtries, limLevel,
                   gets, pool, now, pipelineVars, fetchVars, storeVars>>

\* the sleep test as it would be if it did not spare the last attempt
SleepsAfterEvery(attempt, n) == attempt < n

\* if attempt < max_retries - 1: a failed attempt is followed by a sleep
SleepsAfter(attempt, n) == attempt < n - 1

\* get_with_retry after a get (whose locals are gone): return the payload, or
\* sleep 2 ** attempt before the next attempt, or go on to the end of the loop
AfterGet(c) ==
    /\ gpc[c] = "ret"
    /\ gkey' = [gkey EXCEPT ![c] = ""]
    /\ gout' = [gout EXCEPT ![c] = NoOutcome]
    /\ gpath' = [gpath EXCEPT ![c] = << >>]
    /\ IF gres[c] # "None"
       THEN Return(c)
       ELSE /\ IF SleepsAfter(gattempt[c], gn[c])
               THEN /\ gwaits' = [gwaits EXCEPT ![c] = Append(@, 2 ^ gattempt[c])]
                    /\ gpc' = [gpc EXCEPT ![c] = "sleep"]
                    /\ UNCHANGED gattempt
               ELSE /\ gattempt' = [gattempt EXCEPT ![c] = @ + 1]
                    /\ gpc' = [gpc EXCEPT ![c] = "loop"]
                    /\ UNCHANGED gwaits
            /\ UNCHANGED <<gcid, gn, gtries>>
    /\ UNCHANGED <<gres, semUsed, limLevel,
                   requestCount, errorCount, gets,
                   poolVars, breakerVars, pipelineVars, fetchVars, storeVars>>

\* asyncio.sleep returns: the next iteration of the loop
Wake(c) ==
    /\ gpc[c] = "sleep"
    /\ NoneRunning
    /\ gattempt' = [gattempt EXCEPT ![c] = @ + 1]
    /\ gpc' = [gpc EXCEPT ![c] = "loop"]
    /\ UNCHANGED <<gcid, gn, gkey, gres, gout, gpath, gwaits, gtries, semUsed,
                   limLevel, requestCount, errorCount, gets,
                   poolVars, breakerVars, pipelineVars, fetchVars, storeVars>>

GetStep(c) ==
    \/ LoopHead(c)
    \/ CheckCircuit(c)
    \/ AcquireSlot(c)
    \/ SlotGranted(c)
    \/ AcquireToken(c)
    \/ TokenGranted(c)
    \/ SelectKey(c)
    \/ \E o \in Outcomes : Respond(c, o)
    \/ AfterGet(c)
    \/ Wake(c)

NextClient ==
    \/ \E ks \in ClientKeyConfigs : CreateKeyPoolFromSettings(ks)
    \/ \E c \in Calls : \E id \in ClientCircuits :
            \E n \in 1..MaxRetries : GetWithRetryStart(c, id, n)
    \/ \E c \in Calls : GetStep(c)
    \/ LimiterLeak

\* the client's calls within one cooldown period: the clock of the breaker and
\* of the key pool stands still (SpecBreaker and SpecKeyPool let it run), the
\* limiter's bucket leaks
SpecClient == Init /\ [][NextClient]_vars

\* ------------------------------------------------- fetch_agency_crimes

\* the event loop runs one task at a time, up to its next await that suspends:
\* a task at one of these places is the one running
FetchRunning == \E i \in Oris : ftasks[i]["call"] + ftasks[i]["after"] > 0

\* one task of the call for agency i goes from place p to place q
Move(i, p, q) ==
    /\ ftasks[i][p] > 0
    /\ ftasks' = [ftasks EXCEPT ![i] = [@ EXCEPT ![p] = @ - 1, ![q] = @ + 1]]

\* the sub-category fetches of the call for agency i that are inside
\* "async with sem"
Active(i) ==
    ftasks[i]["call"] + ftasks[i]["slotWait"] + ftasks[i]["slot"]
        + ftasks[i]["after"] + ftasks[i]["pause"]

RECURSIVE SlotsHeldBy(_)
SlotsHeldBy(S) ==
    IF S = {} THEN 0
    ELSE LET i == CHOOSE x \in S : TRUE
         IN  ftasks[i]["slot"] + SlotsHeldBy(S \ {i})

\* the calls of client.get that are inside "async with self.semaphore"
InFlight == SlotsHeldBy(Oris)

\* fetch_agency_crimes(ori = i, offenses = a list of k codes): the semaphore
\* is made and gather creates one task per offense
FetchAgencyCrimes(i, k) ==
    /\ foffenses[i] = 0
    /\ ~FetchRunning
    /\ foffenses' = [foffenses EXCEPT ![i] = k]
    /\ fsem' = [fsem EXCEPT ![i] = FetchConcurrency]
    /\ ftasks' = [ftasks EXCEPT ![i] = [NoTasks EXCEPT !["new"] = k]]
    /\ UNCHANGED <<pipelineVars, storeVars, breakerVars, httpVars>>

\* a semaphore that never refuses
LockedNever(i) == FALSE

\* sem.locked(): no permit is free
Locked(i) == fsem[i] = 0

\* async with sem, on a task's first run: a free permit is taken at once,
\* else the task waits
EnterSubFetch(i) ==
    /\ ~FetchRunning
    /\ IF Locked(i)
       THEN /\ Move(i, "new", "semWait")
            /\ UNCHANGED fsem
       ELSE /\ Move(i, "new", "call")
            /\ fsem' = [fsem EXCEPT ![i] = @ - 1]
    /\ UNCHANGED <<foffenses, pipelineVars, storeVars, breakerVars, httpVars>>

\* a task waiting for sem is given a released permit
SubFetchGranted(i) ==
    /\ ~FetchRunning
    /\ ~Locked(i)
    /\ Move(i, "semWait", "call")
    /\ fsem' = [fsem EXCEPT ![i] = @ - 1]
    /\ UNCHANGED <<foffenses, pipelineVars, storeVars, breakerVars, httpVars>>

\* client.get up to its semaphore: the circuit refuses and get returns None,
\* or a free slot is taken at once, or the call waits for one
ClientGet(i, available) ==
    /\ IF ~available
       THEN /\ Move(i, "call", "after")
            /\ UNCHANGED semUsed
       ELSE IF semUsed < MaxConcurrent
       THEN /\ Move(i, "call", "slot")
            /\ semUsed' = semUsed + 1
       ELSE /\ Move(i, "call", "slotWait")
            /\ UNCHANGED semUsed
    /\ UNCHANGED <<foffenses, fsem, pipelineVars, storeVars, breakerVars, poolVars,
                   gpc, gcid, gn, gattempt, gkey, gres, gout, gpath, gwaits,
                   gtries, limLevel, requestCount, errorCount, gets>>

\* a call waiting for the client's semaphore is given a released slot
ClientSlotGranted(i) ==
    /\ ~FetchRunning
    /\ semUsed < MaxConcurrent
    /\ Move(i, "slotWait", "slot")
    /\ semUsed' = semUsed + 1
    /\ UNCHANGED <<foffenses, fsem, pipelineVars, storeVars, breakerVars, poolVars,
                   gpc, gcid, gn, gattempt, gkey, gres, gout, gpath, gwaits,
                   gtries, limLevel, requestCount, errorCount, gets>>

\* the network call of a get is over, whatever its outcome: the slot is
\* released and get returns
ClientRespond(i) ==
    /\ ~FetchRunning
    /\ Move(i, "slot", "after")
    /\ semUsed' = semUsed - 1
    /\ UNCHANGED <<foffenses, fsem, pipelineVars, storeVars, breakerVars, poolVars,
                   gpc, gcid, gn, gattempt, gkey, gres, gout, gpath, gwaits,
                   gtries, limLevel, requestCount, errorCount, gets>>

\* what a sub-category fetch does next, inside sem: another get (a retry of
\* get_with_retry without backoff left, the participation call), an await
\* (the backoff of get_with_retry, the database session), or its return
NextPlaces == {"call", "pause", "done"}

\* fetch_offense_range after a get has returned; leaving "async with sem"
\* releases the permit
AfterClientGet(i, q) ==
    /\ Move(i, "after", q)
    /\ fsem' = [fsem EXCEPT ![i] = IF q = "done" THEN @ + 1 ELSE @]
    /\ UNCHANGED <<foffenses, pipelineVars, storeVars, breakerVars, httpVars>>

\* the awaited sleep or database call is over
Resume(i, q) ==
    /\ ~FetchRunning
    /\ q # "pause"
    /\ Move(i, "pause", q)
    /\ fsem' = [fsem EXCEPT ![i] = IF q = "done" THEN @ + 1 ELSE @]
    /\ UNCHANGED <<foffenses, pipelineVars, storeVars, breakerVars, httpVars>>

\* results = await asyncio.gather(*tasks): every task has returned
FetchReturn(i) ==
    /\ foffenses[i] > 0
    /\ ftasks[i]["done"] = foffenses[i]
    /\ ~FetchRunning
    /\ foffenses' = [foffenses EXCEPT ![i] = 0]
    /\ fsem' = [fsem EXCEPT ![i] = 0]
    /\ ftasks' = [ftasks EXCEPT ![i] = NoTasks]
    /\ UNCHANGED <<pipelineVars, storeVars, breakerVars, httpVars>>

NextFetch ==
    \/ \E i \in Oris : \E k \in 1..MaxOffenses : FetchAgencyCrimes(i, k)
    \/ \E i \in Oris : EnterSubFetch(i)
    \/ \E i \in Oris : SubFetchGranted(i)
    \/ \E i \in Oris : \E available \in BOOLEAN : ClientGet(i, available)
    \/ \E i \in Oris : ClientSlotGranted(i)
    \/ \E i \in Oris : ClientRespond(i)
    \/ \E i \in Oris : \E q \in NextPlaces : AfterClientGet(i, q)
    \/ \E i \in Oris : \E q \in NextPlaces : Resume(i, q)
    \/ \E i \in Oris : FetchReturn(i)

\* concurrent fetch_agency_crimes calls through one client
SpecFetch == Init /\ [][NextFetch]_vars

\* ----------------------------------------------------------- results store

\* the values one write carries come from one upstream answer: they are told
\* apart by the number of the write.  process_job has no clearance count and
\* no coverage percentage to write.
RawValues(by, v) ==
    [actual_count |-> v,
     clearance_count |-> IF by = "process_job" THEN Null ELSE v,
     months_reported |-> v,
     population |-> v,
     population_pct |-> IF by = "process_job" THEN Null ELSE v,
     raw_json |-> v]

\* the columns named in set_ of ON CONFLICT DO UPDATE
SetColumns(by) ==
    IF by = "process_job"
    THEN {"actual_count", "months_reported", "raw_json"}
    ELSE {"actual_count", "clearance_count", "months_reported", "population",
          "population_pct"}

\* INSERT INTO raw_responses ... ON CONFLICT (ori, offense, year) DO UPDATE
Upsert(rows, k, by, v) ==
    IF k \in DOMAIN rows
    THEN [rows EXCEPT ![k] =
            [c \in DOMAIN rows[k] |->
                IF c \in SetColumns(by) THEN RawValues(by, v)[c] ELSE rows[k][c]]]
    ELSE [j \in (DOMAIN rows) \cup {k} |->
            IF j = k THEN RawValues(by, v) ELSE rows[j]]

\* who writes results: process_job of a worker, fetch_offense_range of
\* fetch_agency_crimes
Writers == {"process_job", "fetch_agency_crimes"}

\* one committed result write for identity k
WriteResult(k, by) ==
    /\ rawCall.version < MaxWrites
    /\ rawCall' = [key |-> k, by |-> by, version |-> rawCall.version + 1]
    /\ rawRows' = Upsert(rawRows, k, by, rawCall.version + 1)
    /\ raw' = raw \cup {k}
    /\ UNCHANGED <<rawCounted, ledger, redisVars, producerVars, workerVars,
                   breakerVars, httpVars, fetchVars>>

NextStore == \E k \in Keys : \E by \in Writers : WriteResult(k, by)

\* result writes by any writers, in any order
SpecStore == Init /\ [][NextStore]_vars

\* ------------------------------------------------- the count of a payload

\* a JSON null; a number n is <<n>>
NoValue == << >>

\* the keys of 'actuals', as the words they are made of
ActualsKeys ==
    { <<"Agency", "Offenses">>, <<"State", "Offenses">>, <<"Agency", "Clearances">> }

\* the month keys "MM-YYYY" of a payload, as <<month, year>>
MonthKeys == { <<1, TargetYear>>, <<2, TargetYear>>, <<12, TargetYear - 1>> }

\* the objects of monthly values: some months, each null or a number
MonthsObjects ==
    UNION { [D -> {NoValue} \cup { <<n>> : n \in 1..MaxMonthValue }] :
                D \in SUBSET MonthKeys }

\* the 'actuals' objects: distinct keys in the order of the payload, each with
\* its object of monthly values
ActualsObjects ==
    { d \in UNION { [1..n -> [key : ActualsKeys, months : MonthsObjects]] :
                        n \in 0..MaxActualsKeys } :
        \A i, j \in 1..Len(d) : i # j => d[i].key # d[j].key }

\* key_suffix in k
Contains(k, word) == \E i \in 1..Len(k) : k[i] = word

\* the sum of the numbers among months[x], x in D
RECURSIVE SumOf(_, _)
SumOf(months, D) ==
    IF D = {} THEN 0
    ELSE LET x == CHOOSE y \in D : TRUE IN
         (IF months[x] = NoValue THEN 0 ELSE months[x][1]) + SumOf(months, D \ {x})

\* the sum of SumOf(d[i].months, all months) over the positions i in I
RECURSIVE SumOfKeys(_, _)
SumOfKeys(d, I) ==
    IF I = {} THEN 0
    ELSE LET i == CHOOSE y \in I : TRUE IN
         SumOf(d[i].months, DOMAIN d[i].months) + SumOfKeys(d, I \ {i})

\* CrimeResponse.actual_count of a payload {"offenses": {"actuals": d}} with
\* no 'results' list: None when no key of d contains "Offenses"
ActualCount(d) ==
    LET found == {i \in 1..Len(d) : Contains(d[i].key, "Offenses")} IN
    IF found # {} THEN <<SumOfKeys(d, found)>> ELSE NoValue

\* get_data_for_key(d, key_suffix, year)["total"]; a month key <<m, y>> ends
\* with "-{year}" when y = year
GetDataForKey(d, keySuffix, year) ==
    LET with == {i \in 1..Len(d) : Contains(d[i].key, keySuffix)} IN
    IF with = {} THEN 0
    ELSE LET target == CHOOSE i \in with : \A j \in with : i <= j
             months == d[target].months
         IN SumOf(months, {x \in DOMAIN months : x[2] = year})

\* a writer takes the actual_count it stores for TargetYear from a payload whose
\* 'actuals' object is d
TakeCount(d, by) ==
    /\ rawCounted = NoCount
    /\ rawCounted' =
        [payload |-> d, by |-> by,
         count |-> IF by = "process_job" THEN ActualCount(d)
                   ELSE <<GetDataForKey(d, "Offenses", TargetYear)>>]
    /\ UNCHANGED <<rawRows, rawCall, pipelineVars, breakerVars, httpVars, fetchVars>>

\* the count taken from any payload by either writer
SpecCount ==
    Init /\ [][\E d \in ActualsObjects : \E by \in Writers : TakeCount(d, by)]_vars

\* ------------------------------------------------ properties: the pipeline

\* C1: for any sequence of producer runs, an identity has one ledger row and
\* exactly one message is ever appended for it; an insert that finds the row
\* present leaves the row unchanged, publishes nothing and counts nothing.
C1_IdempotentEnqueue ==
    [][ /\ \A k \in Keys :
            /\ (MsgCount(k))' <= 1
            /\ k \in DOMAIN ledger' => (MsgCount(k))' = 1
        /\ \A p \in Producers :
            (/\ ppc[p] = "run" /\ ptodo[p] # << >> /\ ptodo'[p] # ptodo[p]
             /\ Head(ptodo[p]) \in DOMAIN ledger)
            => /\ stream' = stream
               /\ ledger' = ledger
               /\ pcreated'[p] = pcreated[p] ]_vars

\* C2: once a ledger entry is COMPLETED it stays COMPLETED, and no worker
\* marks it IN_PROGRESS or fetches it again.
C2_OneLogicalFetch ==
    [][ \A k \in DOMAIN ledger :
            ledger[k].status = "COMPLETED"
            => /\ k \in DOMAIN ledger' /\ ledger'[k].status = "COMPLETED"
               /\ \A w \in Workers :
                    (JobKey(wjob[w]) = k /\ wpc[w] = "marked")
                    => wpc'[w] \in {"marked", "crashed"} ]_vars

C4_SingleHolder ==
    /\ \A m \in 1..Len(stream) :
            Cardinality({c \in Workers : <<c, m>> \in pel}) <= 1
    /\ \A w \in Workers : \A v \in Workers \ {w} :
            (wmsg[w] # 0 /\ wmsg[v] # 0) => wmsg[w] # wmsg[v]

\* two workers hold two messages at the same time
C4_Witness ==
    \E w \in Workers : \E v \in Workers \ {w} :
        /\ wpc[w] \in InProcess /\ wpc[v] \in InProcess
        /\ <<w, wmsg[w]>> \in pel /\ <<v, wmsg[v]>> \in pel

\* C5: process_job absorbs every failure of the ledger update, the fetch, the
\* parse and the persist step: it is left only by returning a boolean, with
\* the message acknowledged and the worker back at the top of its loop.
C5_AbsorbsFailures ==
    [][ \A w \in Workers :
            (wpc[w] \in InProcess /\ wpc'[w] \notin InProcess)
            => \/ wpc'[w] = "crashed"
               \/ /\ wpc'[w] = "idle"
                  /\ wmsg[w] \in Acked'
                  /\ wresult[w].success \in BOOLEAN
                  /\ (wresult[w].error = "exception" => ~wresult[w].success) ]_vars

\* a worker is back at the top of its loop after an exception in the fetch or
\* the persist step: its message is acknowledged and dead-lettered
C5_Witness ==
    \E w \in Workers : \E k \in DOMAIN ledger :
        /\ wpc[w] = "idle"
        /\ ledger[k].status = "IN_PROGRESS" /\ ledger[k].worker_id = w
        /\ failedStream[k] > 0
        /\ \E m \in Acked : JobKey(stream[m]) = k

\* C6: whenever a message has been acknowledged, the ledger entry of its work
\* item is COMPLETED or FAILED (FAILED with the exception text after an
\* exception).
C6_AckedImpliesTerminal ==
    \A m \in Acked :
        LET k == JobKey(stream[m]) IN
            /\ k \in DOMAIN ledger
            /\ ledger[k].status \in {"COMPLETED", "FAILED"}

\* C7: a ledger entry is created PENDING and moves PENDING -> IN_PROGRESS ->
\* COMPLETED | FAILED in that order; IN_PROGRESS has attempts = 1, a worker id
\* and a start time, COMPLETED has completed_at, FAILED has last_error and a
\* dead-letter entry.
C7_Lifecycle ==
    [][ \A k \in DOMAIN ledger' :
            /\ k \notin DOMAIN ledger => ledger'[k].status = "PENDING"
            /\ (k \in DOMAIN ledger /\ ledger'[k].status # ledger[k].status)
                => <<ledger[k].status, ledger'[k].status>> \in
                    { <<"PENDING", "IN_PROGRESS">>,
                      <<"IN_PROGRESS", "COMPLETED">>,
                      <<"IN_PROGRESS", "FAILED">> }
            /\ ledger'[k].status = "IN_PROGRESS"
                => /\ ledger'[k].attempts = 1
                   /\ ledger'[k].worker_id \in Workers
                   /\ ledger'[k].started_at
            /\ ledger'[k].status = "COMPLETED" => ledger'[k].completed_at
            /\ ledger'[k].status = "FAILED"
                => /\ ledger'[k].last_error # "None"
                   /\ failedStream'[k] > 0 ]_vars

\* C24: after stop() on a running worker run() eventually returns; run()
\* returns only from an empty read or after the acknowledgement of the message
\* it had dequeued, so it holds no pending entry when it returns; no iteration
\* begins once the flag is set, and a worker whose run() returned dequeues
\* nothing.
C24_GracefulStop ==
    /\ [][ \A w \in Workers :
            /\ (wpc[w] # "idle" /\ wpc'[w] = "idle") => wrunning[w]
            /\ (wpc[w] # "returned" /\ wpc'[w] = "returned")
                => /\ ~wrunning[w]
                   /\ wpc[w] \in {"idle", "ack"}
                   /\ \A m \in 1..Len(stream) : <<w, m>> \notin pel'
            /\ wpc[w] = "returned"
                => /\ wpc'[w] = "returned"
                   /\ \A m \in 1..Len(stream) : <<w, m>> \notin pel' ]_vars
    /\ \A w \in Workers : ~wrunning[w] ~> wpc[w] = "returned"

\* a worker told to stop has returned after acknowledging the message it had
\* processed, while another worker, told to stop in the middle of an item, is
\* still processing it
C24_Witness ==
    \E w, v \in Workers :
        /\ wpc[w] = "returned" /\ ~wrunning[w]
        /\ \E m \in Acked : /\ JobKey(stream[m]) \in DOMAIN ledger
                            /\ ledger[JobKey(stream[m])].worker_id = w
        /\ wpc[v] \in InProcess /\ ~wrunning[v]

\* C26: a bulk requeue sets each selected FAILED ledger entry to PENDING with
\* attempts = 0 and publishes the item onto the pending stream again (so that
\* a worker dequeues it again); entries in any other status are unchanged.
C26_RequeueRepublishes ==
    [][ (\E k \in DOMAIN ledger :
            ledger[k].status = "FAILED" /\ ledger'[k].status = "PENDING")
        => \A k \in DOMAIN ledger :
            IF ledger[k].status = "FAILED" /\ ledger'[k].status = "PENDING"
            THEN /\ ledger'[k].attempts = 0
                 /\ MsgCount(k)' = MsgCount(k) + 1
            ELSE ledger'[k] = ledger[k] ]_vars

\* C27: get_queue_stats reports as pending the messages published and not yet
\* acknowledged, next to the acknowledged and the dead-lettered counts.
C27_QueueStats ==
    /\ GetQueueStats.pending = Len(stream) - Cardinality(Acked)
    /\ GetQueueStats.results = Cardinality(Acked)
    /\ GetQueueStats.failed = XLenFailed(Keys)

\* C28: the attempts value of a ledger entry never decreases, and each time a
\* worker marks the entry IN_PROGRESS it is one more than it was before.
C28_AttemptsGrow ==
    [][ \A k \in DOMAIN ledger :
        /\ ledger'[k].attempts >= ledger[k].attempts
        /\ (\E w \in Workers : /\ wpc[w] = "got" /\ wpc'[w] = "marked"
                               /\ JobKey(wjob[w]) = k)
            => ledger'[k].attempts = ledger[k].attempts + 1 ]_vars

\* C29: after any sequence of result writes the store holds at most one row
\* per (ori, offense, year), and the counts, the months reported, the
\* population and the raw payload of that row are those of the most recent
\* write for the identity.
C29_LastWriteWins ==
    rawCall # NoUpsert
    => /\ rawCall.key \in DOMAIN rawRows
       /\ rawRows[rawCall.key].actual_count = rawCall.version
       /\ rawRows[rawCall.key].months_reported = rawCall.version
       /\ rawRows[rawCall.key].population = rawCall.version
       /\ rawRows[rawCall.key].raw_json = rawCall.version

\* C34: the ledger row of a work item is committed before a worker can dequeue
\* its message: every message on the stream has a ledger row, a worker that
\* holds a dequeued job finds the row, and no acknowledged message has a
\* ledger entry that is absent or still PENDING.
C34_RowVisibleAtDequeue ==
    /\ \A m \in 1..Len(stream) : JobKey(stream[m]) \in DOMAIN ledger
    /\ \A w \in Workers :
        wpc[w] \in InProcess => JobKey(wjob[w]) \in DOMAIN ledger
    /\ \A m \in Acked :
        /\ JobKey(stream[m]) \in DOMAIN ledger
        /\ ledger[JobKey(stream[m])].status # "PENDING"

\* C35: the dead-letter log and the ledger agree: an entry is appended for a
\* work item only by a step that leaves its ledger entry FAILED, a FAILED
\* ledger entry has a dead-letter entry, a COMPLETED one has none, and a work
\* item has no more dead-letter entries than messages delivered for it.
C35_DeadLetterAgreesWithLedger ==
    [][ \A k \in Keys :
        /\ failedStream'[k] # failedStream[k]
            => /\ failedStream'[k] = failedStream[k] + 1
               /\ k \in DOMAIN ledger' /\ ledger'[k].status = "FAILED"
        /\ (k \in DOMAIN ledger' /\ ledger'[k].status = "FAILED")
            => failedStream'[k] > 0
        /\ (k \in DOMAIN ledger' /\ ledger'[k].status = "COMPLETED")
            => failedStream'[k] = 0
        /\ failedStream'[k] <=
            Cardinality({m \in 1..lastDelivered' : JobKey(stream'[m]) = k}) ]_vars

\* C31: when the payload of a work item whose ledger row is committed does not
\* parse, the second session of process_job leaves the ledger entry FAILED
\* with the parse error as last_error and the raw payload in the results
\* store, and the item is not fetched again.
C31_ParseFailureKept ==
    [][ \A w \in Workers :
        LET k == JobKey(wjob[w]) IN
        (/\ wpc[w] = "fetched" /\ wpc'[w] = "ack"
         /\ wresult[w] = FetchResult("parse")
         /\ k \in DOMAIN ledger)
        => /\ ledger'[k].status = "FAILED"
           /\ ledger'[k].last_error = "Parse error"
           /\ k \in raw' ]_vars

\* C32: the count stored for the target year from any payload that has a key
\* containing "Offenses" is the sum of the monthly values of that year under
\* the first such key, a null or absent month counting zero; months of other
\* years and values under other keys do not contribute.
C32_CountIsYearSum ==
    LET d == rawCounted.payload
        offs == {i \in 1..Len(d) : Contains(d[i].key, "Offenses")}
        first == CHOOSE i \in offs : \A j \in offs : i <= j
        inYear == {x \in DOMAIN d[first].months :
                    x[2] = TargetYear /\ d[first].months[x] # NoValue}
    IN (rawCounted # NoCount /\ offs # {})
        => rawCounted.count = << SumOf(d[first].months, inYear) >>

\* C39: the pilot run terminates: once every message it published has been
\* processed and acknowledged and the workers are idle, its wait loop
\* eventually reads a pending count of 0, leaves the loop and stops the
\* workers.
C39_PilotTerminates ==
    (/\ ppc[StopProducer] \in {"wait", "sleep"}
     /\ stream # << >>
     /\ Acked = 1..Len(stream)
     /\ \A w \in Workers : wpc[w] = "idle")
    ~> (ppc[StopProducer] = "done")

\* ------------------------------------------ properties: the circuit breaker
\* the state of partition id's circuit; a partition without a CircuitStatus
\* is reported closed (get_status)
StateOf(cs, id) == IF id \in DOMAIN cs THEN cs[id].state ELSE "CLOSED"
FailuresOf(cs, id) == IF id \in DOMAIN cs THEN cs[id].failures ELSE 0

\* this step is the call op(id) of the breaker
Called(op, id) == now' = now /\ cbCall'.op = op /\ cbCall'.id = id

\* C8: a CLOSED circuit opens exactly on the record_failure call that brings
\* the failures recorded since the last record_success to failure_threshold;
\* that call returns true and sets cooldown-expiry to now + cooldown; a
\* record_success while CLOSED zeroes the failure count and keeps the state.
C8_TripAtThreshold ==
    [][ \A id \in Partitions :
        /\ (StateOf(circuits, id) = "CLOSED" /\ StateOf(circuits', id) = "OPEN")
            => /\ Called("record_failure", id)
               /\ cbCall'.ret
               /\ failsSince'[id] = FailureThreshold
               /\ circuits'[id].cooldown_until = now + CooldownTicks
        /\ (StateOf(circuits, id) = "CLOSED" /\ Called("record_failure", id))
            => /\ failsSince'[id] = FailuresOf(circuits', id)
               /\ failsSince'[id] = FailureThreshold => StateOf(circuits', id) = "OPEN"
               /\ failsSince'[id] < FailureThreshold
                    => (StateOf(circuits', id) = "CLOSED" /\ ~cbCall'.ret)
        /\ (StateOf(circuits, id) = "CLOSED" /\ Called("record_success", id))
            => /\ StateOf(circuits', id) = "CLOSED"
               /\ FailuresOf(circuits', id) = 0 ]_vars

\* a circuit has just been tripped by the failure_threshold-th failure after a
\* success had reset an earlier, shorter run of failures on another partition
C8_Witness ==
    \E id \in DOMAIN circuits : \E other \in DOMAIN circuits :
        /\ circuits[id].state = "OPEN"
        /\ cbCall = [op |-> "record_failure", id |-> id, ret |-> TRUE]
        /\ circuits[id].failures = FailureThreshold
        /\ circuits[id].cooldown_until = now + CooldownTicks
        /\ other # id /\ circuits[other].state = "CLOSED"
        /\ circuits[other].failures = 0 /\ circuits[other].last_failure # NoTime

\* C9: while OPEN, is_available returns false before cooldown-expiry and leaves
\* the circuit OPEN; at or after cooldown-expiry it returns true, moves the
\* circuit to HALF_OPEN and zeroes the half-open success counter; nothing but
\* such a read (or a reset) takes a circuit out of OPEN.
C9_LazyHalfOpen ==
    [][ \A id \in Partitions :
        /\ (StateOf(circuits, id) = "OPEN" /\ Called("is_available", id)
                /\ now < circuits[id].cooldown_until)
            => (~cbCall'.ret /\ circuits' = circuits)
        /\ (StateOf(circuits, id) = "OPEN" /\ Called("is_available", id)
                /\ now >= circuits[id].cooldown_until)
            => /\ cbCall'.ret
               /\ StateOf(circuits', id) = "HALF_OPEN"
               /\ circuits'[id].success_count = 0
        /\ (StateOf(circuits, id) = "OPEN" /\ StateOf(circuits', id) # "OPEN")
            => \/ Called("is_available", id) /\ StateOf(circuits', id) = "HALF_OPEN"
               \/ Called("reset", id) /\ id \notin DOMAIN circuits'
        /\ (StateOf(circuits, id) = "OPEN") => circuits[id].cooldown_until # NoTime ]_vars

\* a circuit that had counted half-open successes before it reopened has just
\* been half-opened again by a read at or after its cooldown-expiry
C9_Witness ==
    \E id \in DOMAIN circuits :
        /\ circuits[id].state = "HALF_OPEN"
        /\ cbCall = [op |-> "is_available", id |-> id, ret |-> TRUE]
        /\ circuits[id].success_count = 0
        /\ circuits[id].failures > FailureThreshold
        /\ now >= circuits[id].cooldown_until

\* C10: a HALF_OPEN circuit closes exactly on the half_open_successes-th
\* record_success since it entered HALF_OPEN, with the failure count zeroed and
\* the cooldown-expiry cleared; with fewer successes it stays HALF_OPEN.
C10_CloseAfterSuccesses ==
    [][ \A id \in Partitions :
        /\ (StateOf(circuits, id) = "HALF_OPEN" /\ Called("record_success", id))
            => /\ hoSuccs'[id] <= HalfOpenSuccesses
               /\ hoSuccs'[id] = HalfOpenSuccesses
                    => /\ StateOf(circuits', id) = "CLOSED"
                       /\ circuits'[id].failures = 0
                       /\ circuits'[id].cooldown_until = NoTime
               /\ hoSuccs'[id] < HalfOpenSuccesses
                    => /\ StateOf(circuits', id) = "HALF_OPEN"
                       /\ circuits'[id].failures = circuits[id].failures
        /\ (StateOf(circuits, id) = "HALF_OPEN" /\ id \in DOMAIN circuits'
                /\ StateOf(circuits', id) = "CLOSED")
            => /\ Called("record_success", id)
               /\ hoSuccs'[id] = HalfOpenSuccesses ]_vars

\* a circuit has just been closed by its second half-open success
C10_Witness ==
    \E id \in DOMAIN circuits :
        /\ circuits[id].state = "CLOSED"
        /\ cbCall.op = "record_success" /\ cbCall.id = id
        /\ hoSuccs[id] = HalfOpenSuccesses
        /\ circuits[id].success_count = HalfOpenSuccesses
        /\ circuits[id].failures = 0
        /\ circuits[id].last_failure # NoTime
        /\ circuits[id].cooldown_until = NoTime

\* C11: one record_failure on a HALF_OPEN circuit reopens it, returns true and
\* sets cooldown-expiry to the time of the failure plus the cooldown; the
\* expiry then stays while the circuit is OPEN and is_available is false until
\* it; a half-open period counts only its own successes.
C11_HalfOpenFailureReopens ==
    [][ \A id \in Partitions :
        /\ (StateOf(circuits, id) = "HALF_OPEN" /\ Called("record_failure", id))
            => /\ StateOf(circuits', id) = "OPEN"
               /\ cbCall'.ret
               /\ circuits'[id].cooldown_until = now + CooldownTicks
        /\ (StateOf(circuits, id) = "OPEN" /\ StateOf(circuits', id) = "OPEN")
            => /\ circuits'[id].cooldown_until = circuits[id].cooldown_until
               /\ (Called("is_available", id) /\ now < circuits[id].cooldown_until)
                    => ~cbCall'.ret
        /\ StateOf(circuits', id) = "HALF_OPEN"
            => circuits'[id].success_count = hoSuccs'[id] ]_vars

\* a circuit that had counted a half-open success has just been reopened by a
\* failure, with a fresh cooldown-expiry
C11_Witness ==
    \E id \in DOMAIN circuits :
        /\ circuits[id].state = "OPEN"
        /\ cbCall = [op |-> "record_failure", id |-> id, ret |-> TRUE]
        /\ circuits[id].failures > FailureThreshold
        /\ circuits[id].success_count = 1
        /\ circuits[id].last_failure = now
        /\ circuits[id].cooldown_until = now + CooldownTicks
        /\ now >= CooldownTicks

\* C12: reset(p) puts partition p back in its initial state (no circuit:
\* CLOSED, zero failures, available, the next failure counts as the first),
\* and a breaker call on p leaves every other partition's circuit unchanged.
C12_ResetAndIsolation ==
    [][ \A id \in Partitions :
        /\ Called("reset", id)
            => /\ id \notin DOMAIN circuits'
               /\ StateOf(circuits', id) = "CLOSED"
               /\ FailuresOf(circuits', id) = 0
               /\ failsSince'[id] = 0
        /\ (id \notin DOMAIN circuits /\ Called("is_available", id)) => cbCall'.ret
        /\ (id \notin DOMAIN circuits /\ Called("record_failure", id))
            => /\ circuits'[id].failures = 1
               /\ circuits'[id].state = "CLOSED"
               /\ ~cbCall'.ret
        /\ \A op \in {"is_available", "record_success", "record_failure", "reset"} :
            Called(op, id)
            => \A other \in Partitions \ {id} :
                /\ (other \in DOMAIN circuits') = (other \in DOMAIN circuits)
                /\ other \in DOMAIN circuits => circuits'[other] = circuits[other] ]_vars

\* a partition has just been reset while the other partition's circuit is OPEN
C12_Witness ==
    \E id \in Partitions : \E other \in DOMAIN circuits :
        /\ cbCall.op = "reset" /\ cbCall.id = id
        /\ id \notin DOMAIN circuits
        /\ other # id /\ circuits[other].state = "OPEN"
        /\ now > 0

\* C36: while a circuit is OPEN, record_success leaves it entirely unchanged,
\* and record_failure returns false and changes only the failure count and the
\* last-failure time, not the state or the cooldown-expiry; record_failure
\* returns true only on a call that moves the circuit into OPEN.
C36_OpenCircuitFrame ==
    [][ \A id \in Partitions :
        /\ (StateOf(circuits, id) = "OPEN" /\ Called("record_success", id))
            => circuits' = circuits
        /\ (StateOf(circuits, id) = "OPEN" /\ Called("record_failure", id))
            => /\ ~cbCall'.ret
               /\ circuits' = [circuits EXCEPT
                                ![id].failures = @ + 1,
                                ![id].last_failure = now]
        /\ (Called("record_failure", id) /\ cbCall'.ret)
            => /\ StateOf(circuits, id) # "OPEN"
               /\ StateOf(circuits', id) = "OPEN" ]_vars

\* a failure has just been recorded on an OPEN circuit at a later time than
\* the failure that tripped it, and the cooldown-expiry is still that of the
\* trip
C36_Witness ==
    \E id \in DOMAIN circuits :
        /\ circuits[id].state = "OPEN"
        /\ cbCall = [op |-> "record_failure", id |-> id, ret |-> FALSE]
        /\ circuits[id].failures > FailureThreshold
        /\ circuits[id].last_failure = now
        /\ circuits[id].cooldown_until < now + CooldownTicks

\* C37: a circuit that is OPEN or HALF_OPEN has at least failure_threshold
\* failures and an OPEN circuit has a cooldown-expiry; so a failure recorded
\* while HALF_OPEN meets the threshold test of record_failure and reopens the
\* circuit there, never in the half-open branch after it.
C37_ThresholdBranchReopens ==
    /\ [](\A id \in DOMAIN circuits :
            /\ circuits[id].state \in {"OPEN", "HALF_OPEN"}
                => circuits[id].failures >= FailureThreshold
            /\ circuits[id].state = "OPEN"
                => circuits[id].cooldown_until # NoTime)
    /\ [][ \A id \in Partitions :
            (StateOf(circuits, id) = "HALF_OPEN" /\ Called("record_failure", id))
                => /\ circuits'[id].failures >= FailureThreshold
                   /\ circuits[id].state # "OPEN"
                   /\ circuits'[id].state = "OPEN"
                   /\ cbCall'.ret ]_vars

\* a circuit has just been reopened by a failure recorded while it was
\* HALF_OPEN after its cooldown
C37_Witness ==
    \E id \in DOMAIN circuits :
        /\ circuits[id].state = "OPEN"
        /\ cbCall = [op |-> "record_failure", id |-> id, ret |-> TRUE]
        /\ circuits[id].failures > FailureThreshold
        /\ circuits[id].cooldown_until = now + CooldownTicks
        /\ now >= CooldownTicks

\* ------------------------------------------------ properties: the key pool
\* this step is the call op of the key pool
PoolCalled(op) == kpCalls' = kpCalls + 1 /\ kpCall'.op = op

\* C13: get_next_key never returns a credential whose rate-limited-until is
\* in the future while some credential of the pool is not rate-limited, and
\* returns the credential at the cursor once its rate-limited-until has passed;
\* mark_rate_limited(key) sets the credential's rate-limited-until to now plus
\* the cooldown and adds one to its error count.
C13_SkipsRateLimited ==
    [][ /\ (PoolCalled("get_next_key") /\ Len(kpKeys) > 0)
            => /\ (\E i \in 1..Len(kpKeys) : ~(kpKeys[i].rate_limited_until > now))
                    => /\ ~kpCall'.raised
                       /\ ~(kpKeys[kpCall'.idx].rate_limited_until > now)
                       /\ kpCall'.key = kpKeys[kpCall'.idx].key
               /\ ~(kpKeys[kpIndex + 1].rate_limited_until > now)
                    => kpCall'.idx = kpIndex + 1
        /\ \A k \in KeyStrings : \A i \in 1..Len(kpKeys) :
            (/\ PoolCalled("mark_rate_limited") /\ kpCall'.key = k
             /\ kpKeys[i].key = k /\ \A h \in 1..(i - 1) : kpKeys[h].key # k)
            => /\ kpKeys'[i].rate_limited_until = now + KeyCooldownTicks
               /\ kpKeys'[i].errors = kpKeys[i].errors + 1
               /\ \A h \in 1..Len(kpKeys) : h # i => kpKeys'[h] = kpKeys[h] ]_vars

\* get_next_key has just skipped the rate-limited first credential, which it
\* had handed out before, and returned the second one again
C13_Witness ==
    /\ pool = "ok" /\ Len(kpKeys) = 2
    /\ kpCall.op = "get_next_key" /\ kpCall.idx = 2
    /\ kpCall.examined = <<1, 2>>
    /\ kpKeys[1].rate_limited_until > now
    /\ kpKeys[1].requests_made = 1
    /\ kpKeys[2].requests_made = 2

\* C14: when every credential of the pool is rate-limited, get_next_key
\* returns the first credential of the list and does not raise; a call looks
\* at each credential at most once.
C14_FallbackToFirst ==
    [][ /\ (/\ PoolCalled("get_next_key") /\ Len(kpKeys) > 0
            /\ \A i \in 1..Len(kpKeys) : kpKeys[i].rate_limited_until > now)
            => /\ ~kpCall'.raised
               /\ kpCall'.idx = 1
               /\ kpCall'.key = kpKeys[1].key
               /\ kpKeys'[1].requests_made = kpKeys[1].requests_made + 1
        /\ PoolCalled("get_next_key")
            => /\ Len(kpCall'.examined) <= Len(kpKeys)
               /\ \A a \in DOMAIN kpCall'.examined : \A b \in DOMAIN kpCall'.examined :
                    a # b => kpCall'.examined[a] # kpCall'.examined[b] ]_vars

\* with the cursor on the second of two credentials, both rate-limited,
\* get_next_key has just looked at both and returned the first
C14_Witness ==
    /\ pool = "ok" /\ Len(kpKeys) = 2
    /\ kpCall.op = "get_next_key" /\ kpCall.idx = 1 /\ ~kpCall.raised
    /\ kpCall.examined = <<2, 1>>
    /\ kpIndex = 1
    /\ \A i \in 1..2 : kpKeys[i].rate_limited_until > now

\* C15: every constructed pool holds at least one credential, and
\* get_next_key never fails for lack of one.
C15_NoEmptyPool ==
    /\ pool = "ok" => Len(kpKeys) >= 1
    /\ ~kpCall.raised

\* HeavyLiftWorker.fetch_crime_data for one item, in the worker's only task:
\* the crime counts are asked for with max_retries = 5 and, once they have
\* come and parsed, the participation data with the default max_retries
HeavyFetchCrimeData(c, id) ==
    /\ CallOrder[c] = 1
    /\ \/ /\ gpc[c] = "idle" /\ gets = 0
          /\ EnterGetWithRetry(c, id, HeavyRetries)
       \/ /\ gpc[c] = "done" /\ gres[c] = "payload" /\ gets = HeavyRetries
          /\ EnterGetWithRetry(c, id, DefaultMaxRetries)

NextHeavy ==
    \/ \E ks \in ClientKeyConfigs : CreateKeyPoolFromSettings(ks)
    \/ \E c \in Calls : \E id \in ClientCircuits : HeavyFetchCrimeData(c, id)
    \/ \E c \in Calls :
            \/ LoopHead(c)
            \/ CheckCircuit(c)
            \/ AcquireSlot(c)
            \/ AcquireToken(c)
            \/ TokenGranted(c)
            \/ SelectKey(c)
            \/ \E o \in Outcomes : Respond(c, o)
            \/ AfterGet(c)
            \/ Wake(c)
    \/ LimiterLeak

\* the heavy-lift worker fetching one item: its only task is alone on the
\* client and never waits for a slot
SpecHeavy == Init /\ [][NextHeavy]_vars

\* the worker whose fetch_crime_data made the call
Caller == [c \in Calls |-> IF c = "g1" THEN "w1" ELSE "w2"]

NextClientStop ==
    \/ NextClient
    \/ \E c \in Calls : Stop(Caller[c])

\* the client's calls while their workers are told to stop
SpecClientStop == Init /\ [][NextClientStop]_vars

C16_ShortCircuit ==
    [][ \A c \in Calls :
        (/\ gpc[c] = "check" /\ gpc'[c] # "check"
         /\ gcid[c] \in DOMAIN circuits
         /\ circuits[gcid[c]].state = "OPEN"
         /\ now < circuits[gcid[c]].cooldown_until)
        => /\ gpc'[c] = "ret" /\ gres'[c] = "None"
           /\ gpath'[c] = << >>
           /\ gout'[c] = NoOutcome
           /\ semUsed' = semUsed /\ limLevel' = limLevel
           /\ kpKeys' = kpKeys /\ kpIndex' = kpIndex /\ kpCalls' = kpCalls
           /\ requestCount' = requestCount /\ errorCount' = errorCount
           /\ circuits' = circuits ]_vars

\* a get has just returned None at the availability check of an OPEN circuit
\* that three server errors had tripped
C16_Witness ==
    \E c \in Calls :
        /\ gpc[c] = "ret" /\ gres[c] = "None"
        /\ gpath[c] = << >> /\ gout[c] = NoOutcome
        /\ gcid[c] \in DOMAIN circuits
        /\ circuits[gcid[c]].state = "OPEN"
        /\ cbCall = [op |-> "is_available", id |-> gcid[c], ret |-> FALSE]
        /\ requestCount = FailureThreshold /\ errorCount = FailureThreshold

\* s is an initial segment of t
IsPrefix(s, t) ==
    /\ Len(s) <= Len(t)
    /\ \A i \in 1..Len(s) : s[i] = t[i]

\* C17: a get passes its protections in the order circuit check, rate-limiter
\* token, concurrency slot, credential, network call.
C17_ProtectionOrder ==
    \A c \in Calls :
        IsPrefix(gpath[c],
                 IF gcid[c] = NoCircuit
                 THEN <<"token", "slot", "key", "network">>
                 ELSE <<"circuit", "token", "slot", "key", "network">>)

C20_ServerErrorRecorded ==
    [][ \A c \in Calls :
        (/\ gpc[c] = "flight" /\ gpc'[c] = "ret"
         /\ gout'[c].kind = "response" /\ gout'[c].status \in 500..599
         /\ gcid[c] # NoCircuit)
        => /\ gres'[c] = "None"
           /\ gcid[c] \in DOMAIN circuits'
           /\ circuits'[gcid[c]].failures = FailuresOfCircuit(gcid[c]) + 1
           /\ cbCall'.op = "record_failure" /\ cbCall'.id = gcid[c] ]_vars

\* C21: when the network call times out or fails with a transport error, get
\* records one failure on the circuit of the call's partition and returns
\* None.
C21_TransportFailureRecorded ==
    [][ \A c \in Calls :
        (/\ gpc[c] = "flight" /\ gpc'[c] = "ret"
         /\ gout'[c].kind \in {"timeout", "client_error"}
         /\ gcid[c] # NoCircuit)
        => /\ gres'[c] = "None"
           /\ gcid[c] \in DOMAIN circuits'
           /\ circuits'[gcid[c]].failures = FailuresOfCircuit(gcid[c]) + 1
           /\ cbCall'.op = "record_failure" /\ cbCall'.id = gcid[c] ]_vars

\* the keys of the pool that are not rate-limited at time t
FreeKeys(ks, t) == {i \in 1..Len(ks) : ~RateLimited(ks[i], t)}

\* C22: on a 429 response get marks the credential it used as rate-limited,
\* returns None and leaves the circuit breaker alone; a get that selects its
\* credential while the pool holds one that is not rate-limited is given one
\* that is not rate-limited, so never the one a 429 marked within its cooldown.
C22_RateLimitedResponse ==
    [][ \A c \in Calls :
        /\ (/\ gpc[c] = "flight" /\ gpc'[c] = "ret"
            /\ gout'[c].kind = "response" /\ gout'[c].status = 429)
           => /\ gres'[c] = "None"
              /\ circuits' = circuits /\ cbCall' = cbCall
              /\ failsSince' = failsSince /\ hoSuccs' = hoSuccs
              /\ \E i \in 1..Len(kpKeys) :
                    /\ kpKeys[i].key = gkey[c]
                    /\ kpKeys'[i].rate_limited_until = now + KeyCooldownTicks
                    /\ RateLimited(kpKeys'[i], now)
                    /\ \A j \in 1..Len(kpKeys) \ {i} :
                          kpKeys'[j].rate_limited_until = kpKeys[j].rate_limited_until
        /\ (gpc[c] = "key" /\ gpc'[c] = "flight" /\ FreeKeys(kpKeys, now) # {})
           => \E i \in FreeKeys(kpKeys, now) : kpKeys[i].key = gkey'[c] ]_vars

\* a get is on the network with the second credential: get_next_key looked at
\* the first one, which a 429 had marked, and passed over it
C22_Witness ==
    \E c \in Calls :
        /\ gpc[c] = "flight" /\ gkey[c] = "key2"
        /\ Len(kpKeys) = 2
        /\ kpKeys[1].key = "key1" /\ RateLimited(kpKeys[1], now)
        /\ kpKeys[1].errors = 1 /\ kpKeys[1].requests_made = 1
        /\ kpKeys[2].requests_made = 2
        /\ kpCall.op = "get_next_key" /\ kpCall.examined = <<1, 2>>

\* C23: while the circuit of a partition is OPEN and its cooldown has not
\* elapsed, a get_with_retry for that partition makes no network call and
\* gives its caller None at once, without a retry wait (the worker then marks
\* the ledger entry FAILED with the text of that result).
C23_OpenCircuitFailsFast ==
    [][ \A c \in Calls :
        (/\ gpc[c] = "ret" /\ gpc'[c] # "ret"
         /\ gres[c] = "None" /\ gout[c] = NoOutcome /\ gpath[c] = << >>
         /\ gcid[c] \in DOMAIN circuits
         /\ circuits[gcid[c]].state = "OPEN"
         /\ now < circuits[gcid[c]].cooldown_until)
        => /\ gpc'[c] # "sleep"
           /\ gwaits'[c] \in {gwaits[c], << >>}
           /\ gpath'[c] = << >> ]_vars

\* C25: once the worker that made the call has been told to stop,
\* get_with_retry starts no further attempt and no further backoff wait; the
\* attempt on the network runs to its end.
C25_StopBetweenRetries ==
    [][ \A c \in Calls :
        ~wrunning[Caller[c]]
        => /\ ~(gpc[c] = "loop" /\ gpc'[c] = "check" /\ gattempt[c] > 0)
           /\ ~(gpc[c] # "sleep" /\ gpc'[c] = "sleep") ]_vars

\* C30: every upstream call the heavy-lift worker makes for an item has a
\* retry budget of 5 attempts, and the worker has at most one upstream call in
\* flight at any time.
C30_HeavyLiftCalls ==
    /\ [][ \A c \in Calls :
            (gpc[c] \in {"idle", "done"} /\ gpc'[c] = "loop")
            => gn'[c] = HeavyRetries ]_vars
    /\ [](Cardinality({c \in Calls : gpc[c] = "flight"}) <= 1)

\* C40: under any sequence of call outcomes the client's error count never
\* exceeds its request count, so the error rate it reports lies between 0
\* and 1.
C40_CountersConsistent == errorCount <= requestCount

\* C33: no network call for a partition starts while the partition's circuit
\* is OPEN with its cooldown not elapsed, also for a call that passed the
\* availability check before the circuit tripped.
C33_NoCallWhileOpen ==
    [][ \A c \in Calls :
        (/\ gpc[c] = "key" /\ gpc'[c] = "flight"
         /\ gcid[c] \in DOMAIN circuits)
        => ~(/\ circuits[gcid[c]].state = "OPEN"
             /\ now < circuits[gcid[c]].cooldown_until) ]_vars

\* --------------------------------------- properties: fetch_agency_crimes

\* C18: at most max_concurrent calls of one client hold a slot of its
\* semaphore (network calls in flight), and at most 5 sub-category fetches of
\* one fetch_agency_crimes call are inside its semaphore, however many calls
\* and offenses run concurrently
C18_BoundedConcurrency ==
    /\ InFlight <= MaxConcurrent
    /\ \A i \in Oris : Active(i) <= FetchConcurrency

\* both calls run, one has its 5 sub-category fetches active and a further
\* one waiting, every slot of the client is taken and a call waits for one
C18_Witness ==
    /\ \A i \in Oris : foffenses[i] > 0
    /\ \E i \in Oris : Active(i) = FetchConcurrency /\ ftasks[i]["semWait"] > 0
    /\ InFlight = MaxConcurrent
    /\ \E i \in Oris : ftasks[i]["slotWait"] > 0

====
